---- MODULE Spec2Model ----
(***************************************************************************)
(* hono-ban: the error model (createError, the named factories,            *)
(* convertToBanError), the default and RFC 7807 formatters, response       *)
(* assembly (createErrorResponse) and the ban middleware.                  *)
(*                                                                         *)
(* JavaScript values are tagged records: the tag t is the value's kind and *)
(* v its content.  An object is a function from its own keys to values, so *)
(* that an absent key and spread order are what they are in the code.      *)
(***************************************************************************)
EXTENDS Integers, Sequences, FiniteSets, TLC

VARIABLES
  nodeEnv,     \* process.env.NODE_ENV
  middleware,  \* the resolved options of the installed ban middleware
  phase,       \* where the request is: "idle", "built", "thrown", "responded"
  converts,    \* convertToBanError calls applied to the current error
  call,        \* the last library call and its arguments
  result,      \* the value the last call returned (or the value thrown)
  handler,     \* the locals of the ban handler's catch block
  response     \* the Response returned, or the exception that escaped

vars == <<nodeEnv, middleware, phase, converts, call, result, handler, response>>

(***************************************************************************)
(* Bounds of the model.                                                    *)
(***************************************************************************)
\* number of convertToBanError calls applied in a row to one error
MaxConverts == 1

(***************************************************************************)
(* JavaScript values.                                                      *)
(***************************************************************************)
Undef == [t |-> "undefined"]
Null == [t |-> "null"]
NaN == [t |-> "NaN"]
Str(s) == [t |-> "string", v |-> s]
Num(n) == [t |-> "number", v |-> n]
Bool(b) == [t |-> "boolean", v |-> b]
Obj(f) == [t |-> "object", v |-> f]
Arr(s) == [t |-> "array", v |-> s]
\* an instance of Error: new Error(message), with the stack it captured
ErrorInstance(message, stack) == [t |-> "Error", message |-> message, stack |-> stack]
\* an ErrorFormatter object, identified by the formatter it is
Formatter(name) == [t |-> "formatter", v |-> name]

EmptyObject == [k \in {} |-> Undef]

\* obj.key (undefined when the key is absent)
Get(obj, key) ==
  IF obj.t = "object" /\ key \in DOMAIN obj.v THEN obj.v[key]
  ELSE IF obj.t = "Error" /\ key \in {"message", "stack"} THEN Str(obj[key])
  ELSE Undef

\* "key" in obj
HasKey(obj, key) ==
  \/ obj.t = "object" /\ key \in DOMAIN obj.v
  \/ obj.t = "Error" /\ key \in {"message", "stack"}

\* ToBoolean(value)
Truthy(value) ==
  CASE value.t \in {"undefined", "null", "NaN"} -> FALSE
    [] value.t = "string" -> value.v # ""
    [] value.t = "number" -> value.v # 0
    [] value.t = "boolean" -> value.v
    [] OTHER -> TRUE

\* a ?? b
Coalesce(a, b) == IF a.t \in {"undefined", "null"} THEN b ELSE a

\* the own enumerable properties that {...value} copies
Spread(value) == IF value.t = "object" THEN value.v ELSE EmptyObject

\* {...base, ...over}: the later properties win
Assign(base, over) == over @@ base

\* [...value] of an array
CopyArray(value) == Arr(value.v)

(***************************************************************************)
(* Status Registry (constants/status-codes).                               *)
(***************************************************************************)
StatusTable ==
  (400 :> "Bad Request") @@ (401 :> "Unauthorized") @@ (402 :> "Payment Required") @@
  (403 :> "Forbidden") @@ (404 :> "Not Found") @@ (405 :> "Method Not Allowed") @@
  (406 :> "Not Acceptable") @@ (407 :> "Proxy Authentication Required") @@
  (408 :> "Request Timeout") @@ (409 :> "Conflict") @@ (410 :> "Gone") @@
  (411 :> "Length Required") @@ (412 :> "Precondition Failed") @@
  (413 :> "Payload Too Large") @@ (414 :> "URI Too Long") @@
  (415 :> "Unsupported Media Type") @@ (416 :> "Range Not Satisfiable") @@
  (417 :> "Expectation Failed") @@ (418 :> "I'm a teapot") @@
  (421 :> "Misdirected Request") @@ (422 :> "Unprocessable Entity") @@
  (423 :> "Locked") @@ (424 :> "Failed Dependency") @@ (425 :> "Too Early") @@
  (426 :> "Upgrade Required") @@ (428 :> "Precondition Required") @@
  (429 :> "Too Many Requests") @@ (431 :> "Request Header Fields Too Large") @@
  (451 :> "Unavailable For Legal Reasons") @@
  (500 :> "Internal Server Error") @@ (501 :> "Not Implemented") @@
  (502 :> "Bad Gateway") @@ (503 :> "Service Unavailable") @@
  (504 :> "Gateway Timeout") @@ (505 :> "HTTP Version Not Supported") @@
  (506 :> "Variant Also Negotiates") @@ (507 :> "Insufficient Storage") @@
  (508 :> "Loop Detected") @@ (510 :> "Not Extended") @@
  (511 :> "Network Authentication Required")

\* STATUS_CODES[status]
STATUS_CODES(status) ==
  IF status.t = "number" /\ status.v \in DOMAIN StatusTable
  THEN Str(StatusTable[status.v])
  ELSE Undef

(***************************************************************************)
(* utils/validate: validateStatusCode.                                     *)
(***************************************************************************)
\* typeof code !== "number" || isNaN(code); NaN is a number by typeof
validateStatusCode_NoUpper(code) ==
  IF code.t \notin {"number", "NaN"} \/ code.t = "NaN" THEN Num(500)
  ELSE IF code.v < 400 THEN Num(500)
  ELSE code

validateStatusCode(code) ==
  IF code.t \notin {"number", "NaN"} \/ code.t = "NaN" THEN Num(500)
  ELSE IF code.v < 400 \/ code.v >= 600 THEN Num(500)
  ELSE code

(***************************************************************************)
(* core/create-error: createError.  stack is the trace that                *)
(* Error.captureStackTrace records for this call.                          *)
(***************************************************************************)
\* the property named key, when cond holds
Prop(cond, key, value) == IF cond THEN key :> value ELSE EmptyObject

createError_IsBanString(options, stack) ==
  LET status == validateStatusCode(Coalesce(Get(options, "statusCode"), Num(500)))
      cause == Get(options, "cause")
      allow == Get(options, "allow")
  IN Obj(
       ("status" :> status)
       @@ ("message" :> Coalesce(Get(options, "message"), STATUS_CODES(status)))
       @@ ("isBan" :> Str("true"))
       @@ Prop(Get(options, "data") # Undef, "data", Get(options, "data"))
       @@ Prop(Truthy(Get(options, "headers")), "headers",
               Obj(Spread(Get(options, "headers"))))
       @@ Prop(Truthy(allow), "allow",
               IF allow.t = "array" THEN CopyArray(allow) ELSE Arr(<<allow>>))
       @@ Prop(Truthy(cause), "cause", cause)
       @@ Prop(Truthy(cause) /\ cause.t = "Error", "causeStack", Get(cause, "stack"))
       @@ Prop(Truthy(Get(options, "formatter")), "formatter", Get(options, "formatter"))
       @@ Prop(Truthy(Get(options, "sanitize")), "sanitize",
               CopyArray(Get(options, "sanitize")))
       @@ Prop(Get(options, "includeStackTrace") # Undef, "includeStackTrace",
               Get(options, "includeStackTrace"))
       @@ ("stack" :> Str(stack)))

createError(options, stack) ==
  LET status == validateStatusCode(Coalesce(Get(options, "statusCode"), Num(500)))
      cause == Get(options, "cause")
      allow == Get(options, "allow")
  IN Obj(
       ("status" :> status)
       @@ ("message" :> Coalesce(Get(options, "message"), STATUS_CODES(status)))
       @@ ("isBan" :> Bool(TRUE))
       @@ Prop(Get(options, "data") # Undef, "data", Get(options, "data"))
       @@ Prop(Truthy(Get(options, "headers")), "headers",
               Obj(Spread(Get(options, "headers"))))
       @@ Prop(Truthy(allow), "allow",
               IF allow.t = "array" THEN CopyArray(allow) ELSE Arr(<<allow>>))
       @@ Prop(Truthy(cause), "cause", cause)
       @@ Prop(Truthy(cause) /\ cause.t = "Error", "causeStack", Get(cause, "stack"))
       @@ Prop(Truthy(Get(options, "formatter")), "formatter", Get(options, "formatter"))
       @@ Prop(Truthy(Get(options, "sanitize")), "sanitize",
               CopyArray(Get(options, "sanitize")))
       @@ Prop(Get(options, "includeStackTrace") # Undef, "includeStackTrace",
               Get(options, "includeStackTrace"))
       @@ ("stack" :> Str(stack)))

(***************************************************************************)
(* factories: createErrorWithStatus and the named constructors.            *)
(***************************************************************************)
createErrorWithStatus_OptionsLast(statusCode, messageOrOptions, options, stack) ==
  IF messageOrOptions.t = "string"
  THEN createError(
         Obj(Assign(("statusCode" :> statusCode) @@ ("message" :> messageOrOptions),
                    Spread(options))),
         stack)
  ELSE createError(
         Obj(Assign("statusCode" :> statusCode,
                    Assign(Spread(messageOrOptions), Spread(options)))),
         stack)

createErrorWithStatus(statusCode, messageOrOptions, options, stack) ==
  IF messageOrOptions.t = "string"
  THEN createError(
         Obj(Assign(Spread(options),
                    ("statusCode" :> statusCode) @@ ("message" :> messageOrOptions))),
         stack)
  ELSE createError(
         Obj(Assign(Assign(Spread(messageOrOptions), Spread(options)),
                    "statusCode" :> statusCode)),
         stack)

badRequest(messageOrOptions, options, stack) ==
  createErrorWithStatus(Num(400), messageOrOptions, options, stack)

notFound(messageOrOptions, options, stack) ==
  createErrorWithStatus(Num(404), messageOrOptions, options, stack)

methodNotAllowed(messageOrOptions, options, stack) ==
  createErrorWithStatus(Num(405), messageOrOptions, options, stack)

internal(messageOrOptions, options, stack) ==
  createErrorWithStatus(Num(500), messageOrOptions, options, stack)

badImplementation(messageOrOptions, options, stack) ==
  LET mergedOptions ==
        IF messageOrOptions.t = "string"
        THEN Assign(Spread(options), "message" :> messageOrOptions)
        ELSE Assign(Spread(messageOrOptions), Spread(options))
      data == IF "data" \in DOMAIN mergedOptions THEN mergedOptions["data"] ELSE Undef
      mergedData ==
        Obj(Assign("isDeveloperError" :> Bool(TRUE),
                   Spread(IF Truthy(data) THEN data ELSE Obj(EmptyObject))))
  IN createError(
       Obj(Assign(mergedOptions,
                  ("statusCode" :> Num(500)) @@ ("data" :> mergedData))),
       stack)

(***************************************************************************)
(* core/convert-error: isBanError and convertToBanError.                   *)
(***************************************************************************)
\* isBanError(err) with no statusCode argument
isBanError(err) ==
  /\ err.t \in {"object", "array", "Error", "formatter"}
  /\ HasKey(err, "isBan")
  /\ Get(err, "isBan") = Bool(TRUE)

\* isBanError(err, statusCode)
isBanErrorWithStatus(err, statusCode) ==
  /\ isBanError(err)
  /\ (~Truthy(statusCode) \/ Get(err, "status") = statusCode)

\* the merged object of the branch taken for an existing BanError
mergeBanError_OptionsLoseHeaders(err, options) ==
  LET allow == Get(options, "allow")
  IN Obj(
       ("status" :> Coalesce(Get(options, "statusCode"), Get(err, "status")))
       @@ ("message" :> Coalesce(Get(options, "message"), Get(err, "message")))
       @@ ("isBan" :> Bool(TRUE))
       @@ ("data" :> IF Get(options, "data") # Undef
                     THEN Get(options, "data") ELSE Get(err, "data"))
       @@ ("headers" :> Obj(Assign(Spread(Get(options, "headers")),
                                   Spread(Get(err, "headers")))))
       @@ ("allow" :> IF Truthy(allow)
                      THEN IF allow.t = "array" THEN CopyArray(allow)
                           ELSE Arr(<<allow>>)
                      ELSE Get(err, "allow"))
       @@ ("cause" :> Coalesce(Get(options, "cause"), Get(err, "cause")))
       @@ ("stack" :> Get(err, "stack")))

mergeBanError(err, options) ==
  LET allow == Get(options, "allow")
  IN Obj(
       ("status" :> Coalesce(Get(options, "statusCode"), Get(err, "status")))
       @@ ("message" :> Coalesce(Get(options, "message"), Get(err, "message")))
       @@ ("isBan" :> Bool(TRUE))
       @@ ("data" :> IF Get(options, "data") # Undef
                     THEN Get(options, "data") ELSE Get(err, "data"))
       @@ ("headers" :> Obj(Assign(Spread(Get(err, "headers")),
                                   Spread(Get(options, "headers")))))
       @@ ("allow" :> IF Truthy(allow)
                      THEN IF allow.t = "array" THEN CopyArray(allow)
                           ELSE Arr(<<allow>>)
                      ELSE Get(err, "allow"))
       @@ ("cause" :> Coalesce(Get(options, "cause"), Get(err, "cause")))
       @@ ("stack" :> Get(err, "stack")))

convertToBanError(err, optionsArg, stack) ==
  LET options == IF optionsArg = Undef THEN Obj(EmptyObject) ELSE optionsArg
  IN IF isBanError(err)
     THEN mergeBanError(err, options)
     ELSE IF err.t = "Error"
     THEN createError(
            Obj(Assign(Spread(options),
                       ("message" :> Coalesce(Get(options, "message"), Get(err, "message")))
                       @@ ("cause" :> err))),
            stack)
     ELSE createError(
            Obj(Assign(Spread(options),
                       ("message" :> Coalesce(Get(options, "message"),
                                              IF err.t = "string" THEN err
                                              ELSE Str("Unknown error")))
                       @@ ("cause" :> err))),
            stack)

(***************************************************************************)
(* Object identity of the containers of a returned error.  A container is  *)
(* shared when the returned error holds the very object the caller passed  *)
(* in, named by its field and by the argument holding it ("options" or the *)
(* source error "err"); a spread or an array literal makes a new object.   *)
(***************************************************************************)
\* createError copies headers, allow and sanitize
createErrorShared(options) == {}

\* the BanError branch spreads the headers, copies options.allow and leaves
\* sanitize out, but hands on err.allow itself when options has no allow
convertToBanErrorShared(err, optionsArg) ==
  LET options == IF optionsArg = Undef THEN Obj(EmptyObject) ELSE optionsArg
  IN IF isBanError(err)
     THEN IF ~Truthy(Get(options, "allow")) /\ Get(err, "allow").t = "array"
          THEN {<<"allow", "err">>}
          ELSE {}
     ELSE createErrorShared(options)

(***************************************************************************)
(* utils/validate: sanitizeObject.                                         *)
(***************************************************************************)
Range(seq) == {seq[i] : i \in DOMAIN seq}

RECURSIVE sanitizeObject_ArraysAsIs(_, _)
sanitizeObject_ArraysAsIs(obj, keysToRemove) ==
  IF Len(keysToRemove.v) = 0 THEN obj
  ELSE IF obj.t = "array"
  THEN obj
  ELSE IF obj.t = "object"
  THEN Obj([key \in {k \in DOMAIN obj.v : Str(k) \notin Range(keysToRemove.v)} |->
              sanitizeObject_ArraysAsIs(obj.v[key], keysToRemove)])
  ELSE IF obj.t \in {"Error", "formatter"}
  THEN Obj(EmptyObject)
  ELSE obj

RECURSIVE sanitizeObject_OneLevelPerPass(_, _)
sanitizeObject_OneLevelPerPass(obj, keysToRemove) ==
  IF Len(keysToRemove.v) = 0 THEN obj
  ELSE IF obj.t = "array"
  THEN Arr([i \in DOMAIN obj.v |-> sanitizeObject_OneLevelPerPass(obj.v[i], keysToRemove)])
  ELSE IF obj.t = "object"
  THEN IF \E k \in DOMAIN obj.v : Str(k) \in Range(keysToRemove.v)
       THEN Obj([key \in {k \in DOMAIN obj.v : Str(k) \notin Range(keysToRemove.v)} |->
                   obj.v[key]])
       ELSE Obj([key \in DOMAIN obj.v |->
                   sanitizeObject_OneLevelPerPass(obj.v[key], keysToRemove)])
  ELSE IF obj.t \in {"Error", "formatter"}
  THEN Obj(EmptyObject)
  ELSE obj

RECURSIVE sanitizeObject(_, _)
sanitizeObject(obj, keysToRemove) ==
  IF Len(keysToRemove.v) = 0 THEN obj
  ELSE IF obj.t = "array"
  THEN Arr([i \in DOMAIN obj.v |-> sanitizeObject(obj.v[i], keysToRemove)])
  ELSE IF obj.t = "object"
  THEN Obj([key \in {k \in DOMAIN obj.v : Str(k) \notin Range(keysToRemove.v)} |->
              sanitizeObject(obj.v[key], keysToRemove)])
  ELSE IF obj.t \in {"Error", "formatter"}
  THEN Obj(EmptyObject)
  ELSE obj

sanitizeObjectSameReference_NoShortcut(obj, keysToRemove) ==
  obj.t \notin {"array", "object", "Error", "formatter"}

\* whether the value sanitizeObject returns is its argument itself: the
\* early return and the final return hand obj back, map and reduce allocate
sanitizeObjectSameReference(obj, keysToRemove) ==
  IF Len(keysToRemove.v) = 0 THEN TRUE
  ELSE obj.t \notin {"array", "object", "Error", "formatter"}

(***************************************************************************)
(* The developer-error test shared by the default formatter and by         *)
(* createErrorResponse.                                                    *)
(***************************************************************************)
isDeveloperError(data) ==
  /\ Truthy(data)
  /\ data.t \in {"object", "array", "Error", "formatter"}
  /\ HasKey(data, "isDeveloperError")
  /\ Get(data, "isDeveloperError") = Bool(TRUE)

(***************************************************************************)
(* formatters/default: defaultFormatter.format.                            *)
(***************************************************************************)
defaultFormatter == Formatter("default")

defaultFormat_StackAlways(error, headersArg, sanitizeArg, includeStackTraceArg) ==
  LET sanitize == IF sanitizeArg = Undef THEN Arr(<<>>) ELSE sanitizeArg
      status == Get(error, "status")
      message == Get(error, "message")
      data == Get(error, "data")
      output ==
        ("statusCode" :> status)
        @@ ("error" :> IF Truthy(STATUS_CODES(status)) THEN STATUS_CODES(status)
                       ELSE Str("Unknown Error"))
        @@ Prop(message.t = "string", "message", message)
        @@ Prop(Truthy(Get(error, "stack")), "stack", Get(error, "stack"))
        @@ Prop(Truthy(Get(error, "causeStack")), "causeStack", Get(error, "causeStack"))
        @@ Prop(data # Undef, "data", data)
  IN sanitizeObject(Obj(output), sanitize)

defaultFormat_HeadersInBody(error, headersArg, sanitizeArg, includeStackTraceArg) ==
  LET sanitize == IF sanitizeArg = Undef THEN Arr(<<>>) ELSE sanitizeArg
      includeStackTrace ==
        IF includeStackTraceArg = Undef THEN Bool(FALSE) ELSE includeStackTraceArg
      status == Get(error, "status")
      message == Get(error, "message")
      data == Get(error, "data")
      showStack == Truthy(includeStackTrace) \/ isDeveloperError(data)
      output ==
        ("statusCode" :> status)
        @@ ("error" :> IF Truthy(STATUS_CODES(status)) THEN STATUS_CODES(status)
                       ELSE Str("Unknown Error"))
        @@ Prop(message.t = "string", "message", message)
        @@ Prop(showStack /\ Truthy(Get(error, "stack")), "stack", Get(error, "stack"))
        @@ Prop(showStack /\ Truthy(Get(error, "causeStack")), "causeStack",
                Get(error, "causeStack"))
        @@ Prop(data # Undef, "data", data)
        @@ Spread(headersArg)
  IN sanitizeObject(Obj(output), sanitize)

defaultFormat(error, headersArg, sanitizeArg, includeStackTraceArg) ==
  LET sanitize == IF sanitizeArg = Undef THEN Arr(<<>>) ELSE sanitizeArg
      includeStackTrace ==
        IF includeStackTraceArg = Undef THEN Bool(FALSE) ELSE includeStackTraceArg
      status == Get(error, "status")
      message == Get(error, "message")
      data == Get(error, "data")
      showStack == Truthy(includeStackTrace) \/ isDeveloperError(data)
      output ==
        ("statusCode" :> status)
        @@ ("error" :> IF Truthy(STATUS_CODES(status)) THEN STATUS_CODES(status)
                       ELSE Str("Unknown Error"))
        @@ Prop(message.t = "string", "message", message)
        @@ Prop(showStack /\ Truthy(Get(error, "stack")), "stack", Get(error, "stack"))
        @@ Prop(showStack /\ Truthy(Get(error, "causeStack")), "causeStack",
                Get(error, "causeStack"))
        @@ Prop(data # Undef, "data", data)
  IN sanitizeObject(Obj(output), sanitize)

(***************************************************************************)
(* formatters/rfc7807: the problem-details schemas and the formatter.      *)
(* A failed schema parse is the thrown ZodError.                           *)
(***************************************************************************)
Thrown(name) == [t |-> "throw", v |-> name]

rfc7807Formatter == Formatter("rfc7807")

DefaultBaseUrl == "https://api.example.com/problems"

\* createRFC7807Formatter(options): the formatter keeps the base URL it was
\* created with; an absent or empty baseUrl is the default one
createRFC7807Formatter(options) ==
  IF Truthy(Get(options, "baseUrl"))
  THEN [t |-> "formatter", v |-> "rfc7807", baseUrl |-> Get(options, "baseUrl").v]
  ELSE rfc7807Formatter

baseUrlOf(formatter) ==
  IF "baseUrl" \in DOMAIN formatter THEN formatter.baseUrl ELSE DefaultBaseUrl

\* z.string().url(): the string parses as an absolute URL

IsUrl(value) ==
  /\ value.t = "string"
  /\ \E scheme \in {"https://", "http://"} :
       /\ Len(value.v) > Len(scheme)
       /\ SubSeq(value.v, 1, Len(scheme)) = scheme

\* `${value}` of a status
StatusText(value) ==
  CASE value.t = "number" -> ToString(value.v)
    [] value.t = "string" -> value.v
    [] OTHER -> value.t

\* ValidationParamSchema accepts the entry
IsValidationParam(entry) ==
  /\ entry.t = "object"
  /\ Get(entry, "name").t = "string"
  /\ Get(entry, "reason").t = "string"

\* ConstraintViolationSchema accepts the entry
IsConstraintViolation(entry) ==
  /\ IsValidationParam(entry)
  /\ Get(entry, "resource").t = "string"
  /\ Get(entry, "constraint").t = "string"

\* what z.object(...) returns for an accepted entry: the declared keys only
StripTo(entry, keys) == Obj([k \in DOMAIN entry.v \cap keys |-> entry.v[k]])

ProblemDetailsParse_NeverThrows(details) ==
  LET params == Get(details, "invalid-params")
      violations == Get(details, "violations")
  IN Obj(
       Assign(
         Assign(details.v,
                Prop(params.t = "array", "invalid-params",
                     Arr([i \in DOMAIN params.v |->
                            StripTo(params.v[i], {"name", "reason"})]))),
         Prop(violations.t = "array", "violations",
              Arr([i \in DOMAIN violations.v |->
                     StripTo(violations.v[i],
                             {"name", "reason", "resource", "constraint"})]))))

\* ProblemDetailsSchema.parse(details)
ProblemDetailsParse(details) ==
  LET params == Get(details, "invalid-params")
      violations == Get(details, "violations")
      ok ==
        /\ IsUrl(Get(details, "type"))
        /\ Get(details, "title").t = "string"
        /\ Get(details, "status").t = "number"
        /\ Get(details, "status").v >= 400
        /\ Get(details, "status").v <= 599
        /\ Get(details, "detail").t = "string"
        /\ \/ params = Undef
           \/ /\ params.t = "array"
              /\ \A i \in DOMAIN params.v : IsValidationParam(params.v[i])
        /\ \/ violations = Undef
           \/ /\ violations.t = "array"
              /\ \A i \in DOMAIN violations.v : IsConstraintViolation(violations.v[i])
  IN IF ~ok THEN Thrown("ZodError")
     ELSE Obj(
            Assign(
              Assign(details.v,
                     Prop(params # Undef, "invalid-params",
                          Arr([i \in DOMAIN params.v |->
                                 StripTo(params.v[i], {"name", "reason"})]))),
              Prop(violations # Undef, "violations",
                   Arr([i \in DOMAIN violations.v |->
                          StripTo(violations.v[i],
                                  {"name", "reason", "resource", "constraint"})]))))

rfc7807Format_BothExtensions(error, uuid, now) ==
  LET status == Get(error, "status")
      data == Get(error, "data")
      base ==
        ("type" :> Str(DefaultBaseUrl \o "/" \o StatusText(status)))
        @@ ("title" :> IF Truthy(STATUS_CODES(status)) THEN STATUS_CODES(status)
                       ELSE Str("Unknown Error"))
        @@ ("status" :> status)
        @@ ("detail" :> Get(error, "message"))
        @@ ("instance" :> Str("urn:uuid:" \o uuid))
        @@ ("timestamp" :> Str(now))
  IN ProblemDetailsParse(
       Obj(Assign(Assign(base,
                         Prop(Truthy(Get(data, "invalid-params")), "invalid-params",
                              Get(data, "invalid-params"))),
                  Prop(Truthy(Get(data, "violations")), "violations",
                       Get(data, "violations")))))

\* createRFC7807Formatter().format(error); uuid and now are what
\* crypto.randomUUID() and new Date().toISOString() return for this call
rfc7807Format(error, uuid, now) ==
  LET status == Get(error, "status")
      data == Get(error, "data")
      base ==
        ("type" :> Str(DefaultBaseUrl \o "/" \o StatusText(status)))
        @@ ("title" :> IF Truthy(STATUS_CODES(status)) THEN STATUS_CODES(status)
                       ELSE Str("Unknown Error"))
        @@ ("status" :> status)
        @@ ("detail" :> Get(error, "message"))
        @@ ("instance" :> Str("urn:uuid:" \o uuid))
        @@ ("timestamp" :> Str(now))
  IN IF Truthy(Get(data, "invalid-params"))
     THEN ProblemDetailsParse(
            Obj(Assign(base, "invalid-params" :> Get(data, "invalid-params"))))
     ELSE IF Truthy(Get(data, "violations"))
     THEN ProblemDetailsParse(Obj(Assign(base, "violations" :> Get(data, "violations"))))
     ELSE ProblemDetailsParse(Obj(base))

\* format of a formatter created with its own base URL
rfc7807FormatAt(baseUrl, error, uuid, now) ==
  LET status == Get(error, "status")
      data == Get(error, "data")
      base ==
        ("type" :> Str(baseUrl \o "/" \o StatusText(status)))
        @@ ("title" :> IF Truthy(STATUS_CODES(status)) THEN STATUS_CODES(status)
                       ELSE Str("Unknown Error"))
        @@ ("status" :> status)
        @@ ("detail" :> Get(error, "message"))
        @@ ("instance" :> Str("urn:uuid:" \o uuid))
        @@ ("timestamp" :> Str(now))
  IN IF Truthy(Get(data, "invalid-params"))
     THEN ProblemDetailsParse(
            Obj(Assign(base, "invalid-params" :> Get(data, "invalid-params"))))
     ELSE IF Truthy(Get(data, "violations"))
     THEN ProblemDetailsParse(Obj(Assign(base, "violations" :> Get(data, "violations"))))
     ELSE ProblemDetailsParse(Obj(base))

\* formatter.contentType
contentType(formatter) ==
  IF formatter.t = "formatter" /\ formatter.v = "rfc7807" THEN "application/problem+json"
  ELSE "application/json"

(***************************************************************************)
(* core/format-error: formatError.                                         *)
(***************************************************************************)
formatError(error, formatter, options, uuid, now) ==
  IF formatter = rfc7807Formatter
  THEN rfc7807Format(error, uuid, now)
  ELSE IF formatter.t = "formatter" /\ formatter.v = "rfc7807"
  THEN rfc7807FormatAt(baseUrlOf(formatter), error, uuid, now)
  ELSE defaultFormat(error, Get(options, "headers"), Get(options, "sanitize"),
                     Get(options, "includeStackTrace"))

(***************************************************************************)
(* The platform conversions used by response assembly: JSON.stringify,     *)
(* Array.prototype.join, the Headers class and the Response constructor.   *)
(***************************************************************************)
\* the JSON document JSON.stringify(value) writes, as the value it parses to
RECURSIVE JSONstringify(_)
JSONstringify(value) ==
  CASE value.t = "object" ->
         Obj([key \in {k \in DOMAIN value.v :
                         value.v[k].t \notin {"undefined", "formatter"}} |->
                JSONstringify(value.v[key])])
    [] value.t = "array" ->
         Arr([i \in DOMAIN value.v |->
                IF value.v[i].t \in {"undefined", "formatter"} THEN Null
                ELSE JSONstringify(value.v[i])])
    [] value.t = "NaN" -> Null
    [] value.t = "Error" -> Obj(EmptyObject)
    [] OTHER -> value

\* array.join(", ") of an array of strings
RECURSIVE Join(_)
Join(seq) ==
  IF Len(seq) = 0 THEN ""
  ELSE IF Len(seq) = 1 THEN seq[1].v
  ELSE seq[1].v \o ", " \o Join(Tail(seq))

\* header names are case-insensitive: the lower-case form of the names in use
LowerName(name) ==
  CASE name = "Content-Type" -> "content-type"
    [] name = "Allow" -> "allow"
    [] name = "X-Request-Id" -> "x-request-id"
    [] name = "X-Powered-By" -> "x-powered-by"
    [] name = "Retry-After" -> "retry-after"
    [] OTHER -> name

\* new Headers(init): one entry per case-insensitive name; the values of two
\* keys that differ in case only are combined, the key written first first
NewHeaders(init) ==
  [name \in {LowerName(k) : k \in DOMAIN init} |->
     LET keys == {k \in DOMAIN init : LowerName(k) = name}
     IN IF Cardinality(keys) = 1 THEN init[CHOOSE k \in keys : TRUE].v
        ELSE init[CHOOSE k \in keys : k # name].v \o ", " \o init[name].v]

\* headers.set(name, value)
HeadersSet(headers, name, value) == (LowerName(name) :> value) @@ headers

\* headers.get(name); null when absent
HeadersGet(headers, name) ==
  IF LowerName(name) \in DOMAIN headers THEN Str(headers[LowerName(name)]) ELSE Null

\* new Response(body, {status, headers}); a status outside 200..599 is a RangeError
NewResponse(body, status, headers) ==
  IF status.t = "number" /\ status.v >= 200 /\ status.v <= 599
  THEN [t |-> "Response", status |-> status.v, headers |-> headers, body |-> body]
  ELSE Thrown("RangeError")

(***************************************************************************)
(* core/format-error: createErrorResponse.  env is process.env.NODE_ENV.   *)
(***************************************************************************)
RedactedMessage == "An internal server error occurred"

createErrorResponse_MessageKept(error, formatted, env) ==
  LET status == Get(error, "status")
      allow == Get(error, "allow")
      base == NewHeaders(Assign("Content-Type" :> Str("application/json"),
                                Spread(Get(error, "headers"))))
      headers == IF allow.t = "array" /\ Len(allow.v) > 0
                 THEN HeadersSet(base, "Allow", Join(allow.v))
                 ELSE base
  IN IF isDeveloperError(Get(error, "data")) /\ env = Str("production")
     THEN NewResponse(
            JSONstringify(Obj(("statusCode" :> status)
                              @@ ("error" :> STATUS_CODES(status))
                              @@ ("message" :> Get(error, "message")))),
            status, headers)
     ELSE NewResponse(JSONstringify(formatted), status, headers)

createErrorResponse_NoEnvCheck(error, formatted, env) ==
  LET status == Get(error, "status")
      allow == Get(error, "allow")
      base == NewHeaders(Assign("Content-Type" :> Str("application/json"),
                                Spread(Get(error, "headers"))))
      headers == IF allow.t = "array" /\ Len(allow.v) > 0
                 THEN HeadersSet(base, "Allow", Join(allow.v))
                 ELSE base
  IN IF isDeveloperError(Get(error, "data"))
     THEN NewResponse(
            JSONstringify(Obj(("statusCode" :> status)
                              @@ ("error" :> STATUS_CODES(status))
                              @@ ("message" :> Str(RedactedMessage)))),
            status, headers)
     ELSE NewResponse(JSONstringify(formatted), status, headers)

createErrorResponse(error, formatted, env) ==
  LET status == Get(error, "status")
      allow == Get(error, "allow")
      base == NewHeaders(Assign("Content-Type" :> Str("application/json"),
                                Spread(Get(error, "headers"))))
      headers == IF allow.t = "array" /\ Len(allow.v) > 0
                 THEN HeadersSet(base, "Allow", Join(allow.v))
                 ELSE base
  IN IF isDeveloperError(Get(error, "data")) /\ env = Str("production")
     THEN NewResponse(
            JSONstringify(Obj(("statusCode" :> status)
                              @@ ("error" :> STATUS_CODES(status))
                              @@ ("message" :> Str(RedactedMessage)))),
            status, headers)
     ELSE NewResponse(JSONstringify(formatted), status, headers)

(***************************************************************************)
(* middleware/ban-middleware: ban(options) and the handler it returns.     *)
(***************************************************************************)
DEFAULT_OPTIONS ==
  ("formatter" :> defaultFormatter)
  @@ ("sanitize" :> Arr(<<>>))
  @@ ("includeStackTrace" :> Bool(FALSE))
  @@ ("headers" :> Obj(EmptyObject))

\* the options spread over the defaults
resolvedOptions(optionsArg) ==
  LET options == IF optionsArg = Undef THEN Obj(EmptyObject) ELSE optionsArg
  IN Obj(
       Assign(
         Assign(DEFAULT_OPTIONS, Spread(options)),
         ("formatter" :> IF Truthy(Get(options, "formatter"))
                         THEN Get(options, "formatter")
                         ELSE DEFAULT_OPTIONS["formatter"])
         @@ ("headers" :> Obj(Assign(Spread(DEFAULT_OPTIONS["headers"]),
                                     Spread(Get(options, "headers")))))
         @@ ("sanitize" :> Arr(DEFAULT_OPTIONS["sanitize"].v
                               \o (IF Truthy(Get(options, "sanitize"))
                                   THEN Get(options, "sanitize").v ELSE <<>>)))))

\* the error the handler converts the caught value to
banError(resolved, err, stack) ==
  convertToBanError(
    err,
    Obj(("formatter" :> Get(resolved, "formatter"))
        @@ ("headers" :> Get(resolved, "headers"))
        @@ ("sanitize" :> Get(resolved, "sanitize"))
        @@ ("includeStackTrace" :> Get(resolved, "includeStackTrace"))),
    stack)

\* the handler's formatter, sanitize and includeStackTrace locals
banFormatter(resolved, error) ==
  IF Truthy(Get(error, "formatter")) THEN Get(error, "formatter")
  ELSE Get(resolved, "formatter")

banSanitize(resolved, error) ==
  Arr((IF Truthy(Get(resolved, "sanitize")) THEN Get(resolved, "sanitize").v ELSE <<>>)
      \o (IF Truthy(Get(error, "sanitize")) THEN Get(error, "sanitize").v ELSE <<>>))

banIncludeStackTrace(resolved, error) ==
  IF Get(error, "includeStackTrace") # Undef THEN Get(error, "includeStackTrace")
  ELSE Get(resolved, "includeStackTrace")

\* the handler's formatted local
banFormatted(resolved, error, uuid, now) ==
  formatError(
    error,
    banFormatter(resolved, error),
    Obj(("headers" :> IF Truthy(Get(error, "headers")) THEN Get(error, "headers")
                      ELSE Get(resolved, "headers"))
        @@ ("sanitize" :> banSanitize(resolved, error))
        @@ ("includeStackTrace" :> banIncludeStackTrace(resolved, error))),
    uuid, now)

\* what the catch block returns, or the exception that leaves it
banCatch(resolved, err, stack, uuid, now, env) ==
  LET error == banError(resolved, err, stack)
      formatted == banFormatted(resolved, error, uuid, now)
  IN IF formatted.t = "throw" THEN formatted
     ELSE createErrorResponse(error, formatted, env)

(***************************************************************************)
(* formatters/rfc7807: createRFC7807ZodValidationError and the validation  *)
(* hook.  A ZodError carries its issues: a path of segments and a message. *)
(***************************************************************************)
ZodError(issues) == [t |-> "ZodError", errors |-> issues]

\* path.join(".")
RECURSIVE JoinPath(_)
JoinPath(path) ==
  IF Len(path) = 0 THEN ""
  ELSE IF Len(path) = 1 THEN StatusText(path[1])
  ELSE StatusText(path[1]) \o "." \o JoinPath(Tail(path))

createRFC7807ZodValidationError_LastSegment(error) ==
  Obj("invalid-params" :>
        Arr([i \in DOMAIN error.errors |->
               Obj(("name" :> Str(IF Len(error.errors[i].path) = 0 THEN ""
                                  ELSE StatusText(error.errors[i].path[
                                                    Len(error.errors[i].path)])))
                   @@ ("reason" :> Str(error.errors[i].message)))]))

createRFC7807ZodValidationError(error) ==
  Obj("invalid-params" :>
        Arr([i \in DOMAIN error.errors |->
               Obj(("name" :> Str(JoinPath(error.errors[i].path)))
                   @@ ("reason" :> Str(error.errors[i].message)))]))

\* the hook createRFC7807Hook(options) returns, applied to a validation
\* result: the badRequest it throws, or undefined
rfc7807Hook(options, validation, stack) ==
  IF ~validation.success /\ validation.error.t = "ZodError"
  THEN [t |-> "throw",
        v |-> badRequest(
                Obj(("message" :> IF Truthy(Get(options, "message"))
                                  THEN Get(options, "message")
                                  ELSE Str("Validation Error"))
                    @@ ("data" :> createRFC7807ZodValidationError(validation.error))
                    @@ ("formatter" :> Get(options, "formatter"))
                    @@ ("headers" :> Get(options, "headers"))
                    @@ ("sanitize" :> Get(options, "sanitize"))
                    @@ ("includeStackTrace" :> Get(options, "includeStackTrace"))),
                Undef, stack)]
  ELSE Undef

(***************************************************************************)
(* Inputs.                                                                 *)
(***************************************************************************)
\* the objects with at most one of the given values under key
Opt(key, values) == {EmptyObject} \cup {key :> value : value \in values}

\* the traces Error.captureStackTrace records at the three call sites
HandlerStack == "at handler (app.ts)"
ConvertStack == "at convert (app.ts)"
MiddlewareStack == "at ban (ban-middleware.ts)"

StatusInputs ==
  {Null, NaN, Str("404"), Bool(TRUE),
   Num(-1), Num(0), Num(200), Num(399), Num(400), Num(404), Num(419),
   Num(599), Num(600), Num(1000)}

MessageInputs == {Str("Custom message"), Str("")}

DevData == Obj("isDeveloperError" :> Bool(TRUE))
DevDataSecret ==
  Obj(("isDeveloperError" :> Bool(TRUE)) @@ ("sensitiveInfo" :> Str("secret")))
NotDevData == Obj(("isDeveloperError" :> Bool(FALSE)) @@ ("field" :> Str("test")))
FieldData == Obj("field" :> Str("test"))
SecretData ==
  Obj("user" :> Obj(("password" :> Str("x"))
                    @@ ("profile" :> Obj(("token" :> Str("y")) @@ ("name" :> Str("n"))))))
ParamsData ==
  Obj("invalid-params" :>
        Arr(<<Obj(("name" :> Str("email")) @@ ("reason" :> Str("Must be valid")))>>))

ErrorHeaders == Obj(("X-Request-Id" :> Str("from-error")) @@ ("Retry-After" :> Str("30")))
OptionHeaders == Obj(("X-Request-Id" :> Str("from-options")) @@ ("X-Powered-By" :> Str("ban")))

AllowInputs == {Str("GET"), Arr(<<Str("GET"), Str("POST")>>), Arr(<<>>)}

CauseError == ErrorInstance("connection refused", "at connect (db.ts)")

\* createError(options)
CreateOptions ==
  {Obj(s @@ m) : s \in Opt("statusCode", StatusInputs), m \in Opt("message", MessageInputs)}
  \cup
  {Obj(s @@ d @@ h @@ a @@ c) :
     s \in Opt("statusCode", {Num(405)}),
     d \in Opt("data", {FieldData, DevData}),
     h \in Opt("headers", {ErrorHeaders}),
     a \in Opt("allow", AllowInputs),
     c \in Opt("cause", {CauseError, Str("why")})}
  \cup
  {Obj(f @@ k @@ i) :
     f \in Opt("formatter", {rfc7807Formatter}),
     k \in Opt("sanitize", {Arr(<<Str("password")>>)}),
     i \in Opt("includeStackTrace", {Bool(TRUE), Bool(FALSE)})}

\* the two positional arguments of a named constructor
FactoryFirst ==
  {Undef, Str("Custom message"), Str(""),
   Obj("message" :> Str("From options")),
   Obj("message" :> Undef),
   Obj(("statusCode" :> Num(503)) @@ ("data" :> FieldData)),
   Obj("data" :> NotDevData),
   Obj(("allow" :> Arr(<<Str("GET"), Str("POST")>>)) @@ ("headers" :> ErrorHeaders))}

FactorySecond ==
  {Undef,
   Obj("message" :> Str("Second message")),
   Obj("statusCode" :> Num(503)),
   Obj(("statusCode" :> Num(503)) @@ ("message" :> Str("Second message"))),
   Obj("data" :> NotDevData),
   Obj("data" :> FieldData),
   Obj(("data" :> DevDataSecret) @@ ("cause" :> CauseError))}

FactoryNames == {"badRequest", "notFound", "methodNotAllowed", "internal"}

\* convertToBanError(err, options)
ConvertOptions ==
  {Undef}
  \cup
  {Obj(s @@ m @@ d @@ c) :
     s \in Opt("statusCode", {Num(400), Num(200), Num(600)}),
     m \in Opt("message", {Str("Override")}),
     d \in Opt("data", {Obj("id" :> Str("123"))}),
     c \in Opt("cause", {Str("because")})}
  \cup
  {Obj(h @@ a) :
     h \in Opt("headers", {OptionHeaders}),
     a \in Opt("allow", {Str("PUT"), Arr(<<Str("PUT"), Str("PATCH")>>), Arr(<<>>)})}

\* values a handler throws that no constructor of this library built
RawValues ==
  {Undef, Null, Str("String error"), Str(""), Num(123), Num(0), Bool(FALSE),
   ErrorInstance("Standard error", "at handler (app.ts)"),
   Obj("code" :> Str("E_FAIL")),
   Obj("message" :> Str("looks like an error")),
   Obj(("isBan" :> Str("yes")) @@ ("status" :> Num(404))),
   Obj(("isBan" :> Bool(TRUE)) @@ ("status" :> Num(200))),
   Obj(("isBan" :> Bool(TRUE)) @@ ("status" :> Num(404)) @@ ("message" :> Str("duck")))}

(***************************************************************************)
(* The error model: constructors and conversion.                           *)
(***************************************************************************)
NoCall ==
  [op |-> "none", err |-> Undef, first |-> Undef, options |-> Undef, formatted |-> Undef]

NoHandler ==
  [error |-> Undef, formatter |-> Undef, sanitize |-> Undef,
   includeStackTrace |-> Undef, formatted |-> Undef]

Init ==
  /\ nodeEnv = Undef
  /\ middleware = Undef
  /\ phase = "idle"
  /\ converts = 0
  /\ call = NoCall
  /\ result = Undef
  /\ handler = NoHandler
  /\ response = Undef

\* the named constructor
Factory(name, first, second, stack) ==
  CASE name = "badRequest" -> badRequest(first, second, stack)
    [] name = "notFound" -> notFound(first, second, stack)
    [] name = "methodNotAllowed" -> methodNotAllowed(first, second, stack)
    [] name = "internal" -> internal(first, second, stack)

\* the code a named constructor fixes
FactoryStatus(name) ==
  CASE name = "badRequest" -> 400
    [] name = "notFound" -> 404
    [] name = "methodNotAllowed" -> 405
    [] name = "internal" -> 500

CreateError ==
  /\ phase = "idle"
  /\ \E options \in CreateOptions :
       /\ result' = createError(options, HandlerStack)
       /\ call' = [NoCall EXCEPT !.op = "createError", !.options = options]
  /\ phase' = "built"
  /\ UNCHANGED <<nodeEnv, middleware, converts, handler, response>>

NamedFactory ==
  /\ phase = "idle"
  /\ \E name \in FactoryNames, first \in FactoryFirst, second \in FactorySecond :
       /\ result' = Factory(name, first, second, HandlerStack)
       /\ call' = [NoCall EXCEPT !.op = name, !.first = first, !.options = second]
  /\ phase' = "built"
  /\ UNCHANGED <<nodeEnv, middleware, converts, handler, response>>

BadImplementation ==
  /\ phase = "idle"
  /\ \E first \in FactoryFirst, second \in FactorySecond :
       /\ result' = badImplementation(first, second, HandlerStack)
       /\ call' = [NoCall EXCEPT !.op = "badImplementation", !.first = first,
                                 !.options = second]
  /\ phase' = "built"
  /\ UNCHANGED <<nodeEnv, middleware, converts, handler, response>>

\* convertToBanError of a value no constructor built
ConvertRaw ==
  /\ phase = "idle"
  /\ \E err \in RawValues, options \in ConvertOptions :
       /\ result' = convertToBanError(err, options, ConvertStack)
       /\ call' = [NoCall EXCEPT !.op = "convertToBanError", !.err = err,
                                 !.options = options]
  /\ phase' = "built"
  /\ converts' = 1
  /\ UNCHANGED <<nodeEnv, middleware, handler, response>>

\* convertToBanError of the error built so far
ConvertBuilt ==
  /\ phase = "built"
  /\ converts < MaxConverts
  /\ \E options \in ConvertOptions :
       /\ result' = convertToBanError(result, options, ConvertStack)
       /\ call' = [NoCall EXCEPT !.op = "convertToBanError", !.err = result,
                                 !.options = options]
  /\ converts' = converts + 1
  /\ UNCHANGED <<nodeEnv, middleware, phase, handler, response>>

\* the error goes out of scope
Release ==
  /\ phase \in {"built", "responded"}
  /\ phase' = "idle"
  /\ converts' = 0
  /\ call' = NoCall
  /\ result' = Undef
  /\ handler' = NoHandler
  /\ response' = Undef
  /\ UNCHANGED <<nodeEnv, middleware>>

Next ==
  \/ CreateError
  \/ NamedFactory
  \/ BadImplementation
  \/ ConvertRaw
  \/ ConvertBuilt
  \/ Release

Spec == Init /\ [][Next]_vars

(***************************************************************************)
(* Properties of the error model.                                          *)
(***************************************************************************)
\* a status inside the error range 400..599
InErrorRange(status) == status.t = "number" /\ status.v >= 400 /\ status.v <= 599

\* a value given in options that ?? does not replace
Given(value) == value.t \notin {"undefined", "null"}

\* C2: createError normalizes every statusCode input into 400..599: a code
\* already in the range is kept, every other input (absent, non-numeric, NaN,
\* below 400, 600 or above) gives exactly 500.
C2_CreateErrorStatus ==
  call.op = "createError" =>
    LET s == Get(call.options, "statusCode")
    IN /\ InErrorRange(Get(result, "status"))
       /\ InErrorRange(s) => Get(result, "status") = s
       /\ ~InErrorRange(s) => Get(result, "status") = Num(500)

C2_Witness ==
  /\ call.op = "createError"
  /\ Get(call.options, "statusCode") = Num(600)
  /\ Get(result, "status") = Num(500)

\* C3: every BanError produced by any sequence of createError, named
\* constructor and convertToBanError calls has its status in 400..599.
C3_StatusAlwaysInRange ==
  isBanError(result) => InErrorRange(Get(result, "status"))

\* C4: convertToBanError returns, for every input value and options, a value
\* that satisfies isBanError (an object whose isBan is true).
C4_ConvertTotal ==
  call.op = "convertToBanError" =>
    /\ result.t = "object"
    /\ isBanError(result)
    /\ Get(result, "isBan") = Bool(TRUE)

C4_Witness ==
  /\ call.op = "convertToBanError"
  /\ call.err = Null
  /\ isBanError(result)

\* C5: converting an existing BanError merges: status, message, data and
\* cause come from options when given and from the error otherwise; headers
\* are the union with options winning on a shared key; allow given in options
\* replaces the error's list (a string becomes a one-element list); the
\* stack is the error's stack.
C5_MergeSemantics ==
  (call.op = "convertToBanError" /\ isBanError(call.err)) =>
    LET e == call.err
        o == call.options
        eh == Spread(Get(e, "headers"))
        oh == Spread(Get(o, "headers"))
        rh == Get(result, "headers")
    IN /\ Get(result, "status") =
            IF Given(Get(o, "statusCode")) THEN Get(o, "statusCode") ELSE Get(e, "status")
       /\ Get(result, "message") =
            IF Given(Get(o, "message")) THEN Get(o, "message") ELSE Get(e, "message")
       /\ Get(result, "data") =
            IF Get(o, "data") # Undef THEN Get(o, "data") ELSE Get(e, "data")
       /\ Get(result, "cause") =
            IF Given(Get(o, "cause")) THEN Get(o, "cause") ELSE Get(e, "cause")
       /\ rh.t = "object"
       /\ DOMAIN rh.v = DOMAIN eh \cup DOMAIN oh
       /\ \A k \in DOMAIN rh.v : rh.v[k] = IF k \in DOMAIN oh THEN oh[k] ELSE eh[k]
       /\ Get(o, "allow").t = "string" => Get(result, "allow") = Arr(<<Get(o, "allow")>>)
       /\ Get(o, "allow").t = "array" => Get(result, "allow") = Get(o, "allow")
       /\ Get(o, "allow") = Undef => Get(result, "allow") = Get(e, "allow")
       /\ Get(result, "stack") = Get(e, "stack")

C5_Witness ==
  /\ call.op = "convertToBanError"
  /\ isBanError(call.err)
  /\ Get(call.err, "stack") = Str(HandlerStack)
  /\ Get(call.err, "headers") = ErrorHeaders
  /\ Get(call.err, "allow") = Arr(<<Str("GET"), Str("POST")>>)
  /\ Get(call.options, "headers") = OptionHeaders
  /\ Get(call.options, "allow") = Str("PUT")
  /\ Get(Get(result, "headers"), "X-Request-Id") = Str("from-options")
  /\ Get(result, "allow") = Arr(<<Str("PUT")>>)

\* C10: badImplementation yields status 500 and data.isDeveloperError true
\* for every call shape, also when the caller's data carries
\* isDeveloperError false, and keeps the caller's other data fields.
C10_BadImplementationForcesFlag ==
  call.op = "badImplementation" =>
    /\ Get(result, "status") = Num(500)
    /\ Get(Get(result, "data"), "isDeveloperError") = Bool(TRUE)

(***************************************************************************)
(* Response assembly: createErrorResponse applied to a built error and a   *)
(* formatted payload, under each NODE_ENV.                                  *)
(***************************************************************************)
NodeEnvs == {Str("production"), Str("development"), Str("test"), Undef}

Uuids == {"0b0e7a52-0000-4000-8000-000000000001", "0b0e7a52-0000-4000-8000-000000000002"}

Instants == {"2025-01-01T00:00:00.000Z"}

\* error.headers: other names than the default's, the default's own name as
\* written and in lower case, and an Allow entry
ResponseHeaders ==
  {ErrorHeaders,
   Obj("Content-Type" :> Str("text/plain")),
   Obj("content-type" :> Str("text/plain")),
   Obj(("Allow" :> Str("HEAD")) @@ ("X-Request-Id" :> Str("from-error")))}

\* createError(options) of the errors handed to createErrorResponse
ResponseOptions ==
  {Obj(s @@ m @@ d @@ h @@ a @@ c) :
     s \in Opt("statusCode", {Num(404), Num(405), Num(419), Num(503)}),
     m \in Opt("message", {Str("db down")}),
     d \in Opt("data", {DevData, DevDataSecret, NotDevData, SecretData,
                        Str("isDeveloperError"), Null}),
     h \in Opt("headers", ResponseHeaders),
     a \in Opt("allow", {Arr(<<Str("GET"), Str("POST")>>), Arr(<<>>)}),
     c \in Opt("cause", {CauseError})}

\* payloads a formatter may hand over for the error
Payloads(error) ==
  {defaultFormat(error, Undef, Undef, Undef),
   defaultFormat(error, Undef, Arr(<<Str("password")>>), Bool(TRUE)),
   Obj(("statusCode" :> Num(500)) @@ ("message" :> Str("Original error message"))
       @@ ("data" :> Obj("sensitiveInfo" :> Str("secret")))
       @@ ("stack" :> Str("at secret (internal.ts)"))),
   Obj(EmptyObject),
   Str("plain text")}
  \cup
  ({rfc7807Format(error, uuid, now) : uuid \in Uuids, now \in Instants}
     \ {Thrown("ZodError")})

InitResponse ==
  /\ nodeEnv \in NodeEnvs
  /\ middleware = Undef
  /\ phase = "idle"
  /\ converts = 0
  /\ call = NoCall
  /\ result = Undef
  /\ handler = NoHandler
  /\ response = Undef

ResponseCreateError ==
  /\ phase = "idle"
  /\ \E options \in ResponseOptions :
       /\ result' = createError(options, HandlerStack)
       /\ call' = [NoCall EXCEPT !.op = "createError", !.options = options]
  /\ phase' = "built"
  /\ UNCHANGED <<nodeEnv, middleware, converts, handler, response>>

CreateErrorResponse ==
  /\ phase = "built"
  /\ \E formatted \in Payloads(result) :
       /\ response' = createErrorResponse(result, formatted, nodeEnv)
       /\ call' = [NoCall EXCEPT !.op = "createErrorResponse", !.err = result,
                                 !.formatted = formatted]
  /\ phase' = "responded"
  /\ UNCHANGED <<nodeEnv, middleware, converts, result, handler>>

NextResponse ==
  \/ ResponseCreateError
  \/ BadImplementation
  \/ CreateErrorResponse
  \/ Release

SpecResponse == InitResponse /\ [][NextResponse]_vars

\* error.data is an object carrying isDeveloperError: true
CarriesDeveloperFlag(error) ==
  LET data == Get(error, "data")
  IN /\ data.t = "object"
     /\ "isDeveloperError" \in DOMAIN data.v
     /\ data.v["isDeveloperError"] = Bool(TRUE)

\* the minimal body: statusCode, the reason phrase of a registered status
\* (JSON drops the key of a status with none) and the generic message
IsMinimalBody(body, status) ==
  /\ body.t = "object"
  /\ DOMAIN body.v =
       {"statusCode", "message"}
       \cup (IF status.v \in DOMAIN StatusTable THEN {"error"} ELSE {})
  /\ body.v["statusCode"] = status
  /\ body.v["message"] = Str("An internal server error occurred")
  /\ status.v \in DOMAIN StatusTable => body.v["error"] = Str(StatusTable[status.v])

\* C1: createErrorResponse answers with the minimal body exactly for a
\* developer error in production and with the formatted payload verbatim in
\* every other case; the response status is error.status in both cases and
\* the minimal body has no data, stack or causeStack.
C1_RedactionRule ==
  call.op = "createErrorResponse" =>
    LET error == call.err
        redact == CarriesDeveloperFlag(error) /\ nodeEnv = Str("production")
    IN /\ response.t = "Response"
       /\ response.status = Get(error, "status").v
       /\ redact => /\ IsMinimalBody(response.body, Get(error, "status"))
                    /\ DOMAIN response.body.v \cap {"data", "stack", "causeStack"} = {}
       /\ ~redact => response.body = call.formatted

C1_Witness ==
  /\ call.op = "createErrorResponse"
  /\ nodeEnv = Str("production")
  /\ Get(call.err, "data") = DevDataSecret
  /\ HasKey(call.formatted, "data")
  /\ HasKey(call.formatted, "stack")
  /\ response.t = "Response"
  /\ response.body =
       Obj(("statusCode" :> Num(500)) @@ ("error" :> Str("Internal Server Error"))
           @@ ("message" :> Str("An internal server error occurred")))

(***************************************************************************)
(* The request pipeline: the ban middleware is installed, a handler (or    *)
(* the validation hook) throws, and the middleware's catch block answers.  *)
(***************************************************************************)
\* formatters created with a base URL of their own: an absolute one and a
\* path, which is no URL
ConfiguredFormatters ==
  {createRFC7807Formatter(Obj("baseUrl" :> Str("https://errors.example.org"))),
   createRFC7807Formatter(Obj("baseUrl" :> Str("/problems")))}

MiddlewareOptions ==
  {Undef}
  \cup
  {Obj(f @@ k @@ i @@ h) :
     f \in Opt("formatter", {defaultFormatter, rfc7807Formatter} \cup ConfiguredFormatters),
     k \in Opt("sanitize", {Arr(<<Str("password")>>)}),
     i \in Opt("includeStackTrace", {Bool(TRUE), Bool(FALSE)}),
     h \in Opt("headers", {OptionHeaders})}

\* createError(options) of the errors a handler throws
ThrownOptions ==
  {Obj(d @@ h @@ f @@ k @@ i) :
     \* the last one is an invalid-params entry without its reason
     d \in Opt("data", {SecretData, DevData, ParamsData,
                        Obj("invalid-params" :> Arr(<<Obj("name" :> Str("email"))>>))}),
     h \in Opt("headers", {ErrorHeaders}),
     f \in Opt("formatter", {defaultFormatter, rfc7807Formatter}),
     k \in Opt("sanitize", {Arr(<<Str("token")>>)}),
     i \in Opt("includeStackTrace", {Bool(TRUE), Bool(FALSE)})}

ThrownRaw ==
  {Str("String error"), Null,
   ErrorInstance("Standard error", "at handler (app.ts)"),
   Obj(("isBan" :> Bool(TRUE)) @@ ("status" :> Num(200))),
   Obj(("isBan" :> Bool(TRUE)) @@ ("status" :> Num(600)))}

\* the results the validator hands to the hook
Validations ==
  {[success |-> TRUE, error |-> Undef],
   [success |-> FALSE, error |-> ErrorInstance("Other error", "at validate (app.ts)")],
   [success |-> FALSE,
    error |-> ZodError(<<[path |-> <<Str("email")>>, message |-> "Invalid email"]>>)],
   [success |-> FALSE,
    error |-> ZodError(<<[path |-> <<Str("user"), Str("tags"), Num(0)>>,
                          message |-> "Required"],
                         [path |-> <<>>, message |-> "Unrecognized key"]>>)]}

HookOptions ==
  {Undef,
   Obj("message" :> Str("Custom validation error")),
   Obj(("formatter" :> rfc7807Formatter) @@ ("sanitize" :> Arr(<<Str("token")>>)))}

InitBan ==
  /\ nodeEnv \in {Str("production"), Str("development")}
  /\ middleware = Undef
  /\ phase = "idle"
  /\ converts = 0
  /\ call = NoCall
  /\ result = Undef
  /\ handler = NoHandler
  /\ response = Undef

\* app.use(ban(options))
Ban ==
  /\ middleware = Undef
  /\ \E options \in MiddlewareOptions :
       /\ middleware' = resolvedOptions(options)
       /\ call' = [NoCall EXCEPT !.op = "ban", !.options = options]
  /\ UNCHANGED <<nodeEnv, phase, converts, result, handler, response>>

\* the handler throws an error it built with createError
ThrowBanError ==
  /\ middleware # Undef
  /\ phase = "idle"
  /\ \E options \in ThrownOptions :
       /\ result' = createError(options, HandlerStack)
       /\ call' = [NoCall EXCEPT !.op = "createError", !.options = options]
  /\ phase' = "thrown"
  /\ UNCHANGED <<nodeEnv, middleware, converts, handler, response>>

\* the handler throws a value that is not this library's
ThrowRaw ==
  /\ middleware # Undef
  /\ phase = "idle"
  /\ \E value \in ThrownRaw :
       /\ result' = value
       /\ call' = [NoCall EXCEPT !.op = "throw", !.err = value]
  /\ phase' = "thrown"
  /\ UNCHANGED <<nodeEnv, middleware, converts, handler, response>>

\* the validation hook runs on a validation result
ValidationHook ==
  /\ middleware # Undef
  /\ phase = "idle"
  /\ \E options \in HookOptions, validation \in Validations :
       LET outcome == rfc7807Hook(options, validation, HandlerStack)
       IN /\ call' = [NoCall EXCEPT !.op = "rfc7807Hook", !.first = validation,
                                    !.options = options]
          /\ IF outcome = Undef
             THEN /\ result' = Undef
                  /\ phase' = "idle"
             ELSE /\ result' = outcome.v
                  /\ phase' = "thrown"
  /\ UNCHANGED <<nodeEnv, middleware, converts, handler, response>>

\* the catch block of the middleware's handler
BanCatch ==
  /\ phase = "thrown"
  /\ \E uuid \in Uuids, now \in Instants :
       LET error == banError(middleware, result, MiddlewareStack)
       IN /\ handler' =
               [error |-> error,
                formatter |-> banFormatter(middleware, error),
                sanitize |-> banSanitize(middleware, error),
                includeStackTrace |-> banIncludeStackTrace(middleware, error),
                formatted |-> banFormatted(middleware, error, uuid, now)]
          /\ response' = banCatch(middleware, result, MiddlewareStack, uuid, now, nodeEnv)
  /\ call' = [NoCall EXCEPT !.op = "banCatch", !.err = result]
  /\ phase' = "responded"
  /\ UNCHANGED <<nodeEnv, middleware, converts, result>>

NextBan ==
  \/ Ban
  \/ ThrowBanError
  \/ ThrowRaw
  \/ ValidationHook
  \/ BanCatch
  \/ Release

SpecBan == InitBan /\ [][NextBan]_vars

(***************************************************************************)
(* Properties of the middleware's precedence rules.                        *)
(***************************************************************************)
\* some object inside value, at any depth, has a key in keys
RECURSIVE HasKeyDeep(_, _)
HasKeyDeep(value, keys) ==
  CASE value.t = "object" ->
         \/ DOMAIN value.v \cap keys # {}
         \/ \E k \in DOMAIN value.v : HasKeyDeep(value.v[k], keys)
    [] value.t = "array" -> \E i \in DOMAIN value.v : HasKeyDeep(value.v[i], keys)
    [] OTHER -> FALSE

\* the strings of a sanitize list (none when the list is absent)
SanitizeKeys(list) == IF list.t = "array" THEN {list.v[i].v : i \in DOMAIN list.v} ELSE {}

\* C6: a thrown BanError's own formatter and includeStackTrace are the ones
\* the middleware formats with; the middleware's values are used only when
\* the error has none.
C6_PerErrorFormatterWins ==
  (call.op = "banCatch" /\ isBanError(call.err)) =>
    /\ handler.formatter =
         IF Truthy(Get(call.err, "formatter")) THEN Get(call.err, "formatter")
         ELSE Get(middleware, "formatter")
    /\ handler.includeStackTrace =
         IF Get(call.err, "includeStackTrace") # Undef
         THEN Get(call.err, "includeStackTrace")
         ELSE Get(middleware, "includeStackTrace")

\* C7: the response headers are the union of the thrown BanError's headers
\* and the middleware's default headers, and a key present in both carries
\* the error's value.
C7_ErrorHeadersWin ==
  (call.op = "banCatch" /\ isBanError(call.err) /\ response.t = "Response") =>
    LET eh == Spread(Get(call.err, "headers"))
        mh == Spread(Get(middleware, "headers"))
    IN \A k \in DOMAIN eh \cup DOMAIN mh :
         HeadersGet(response.headers, k) = IF k \in DOMAIN eh THEN eh[k] ELSE mh[k]

\* C8: with the default formatter, the sanitize list handed to the formatter
\* holds every key of the middleware's list and of the thrown BanError's own
\* list, and the response body has no key of either list at any depth.
C8_SanitizeListsCombined ==
  (call.op = "banCatch" /\ isBanError(call.err)
     /\ handler.formatter = defaultFormatter /\ response.t = "Response") =>
    LET keys == SanitizeKeys(Get(middleware, "sanitize"))
                  \cup SanitizeKeys(Get(call.err, "sanitize"))
    IN /\ keys \subseteq SanitizeKeys(handler.sanitize)
       /\ ~HasKeyDeep(response.body, keys)

\* C9: every response carries a Content-Type equal to the contentType of the
\* formatter that produced its body.
C9_ContentTypeOfFormatter ==
  (call.op = "banCatch" /\ response.t = "Response") =>
    HeadersGet(response.headers, "Content-Type") = Str(contentType(handler.formatter))

(***************************************************************************)
(* Client errors and production redaction.                                 *)
(***************************************************************************)
\* C11: for an error whose status is in [400,499], whatever its data,
\* createErrorResponse in production answers with the formatted payload
\* verbatim and never with the generic "An internal server error occurred"
\* body.
C11_ClientErrorsNeverRedacted ==
  ( /\ call.op = "createErrorResponse"
    /\ nodeEnv = Str("production")
    /\ Get(call.err, "status").v \in 400..499 )
  => /\ response.body = call.formatted
     /\ Get(response.body, "message") # Str(RedactedMessage)

(***************************************************************************)
(* The sanitizer on its own: sanitizeObject applied to a nested structure   *)
(* and a key list, then applied again to its own output.                   *)
(***************************************************************************)
\* depth of the wrapping around the innermost object of a structure
MaxNesting == 2

\* the key lists handed to sanitizeObject
SanitizeLists ==
  {Arr(<<>>),
   Arr(<<Str("password")>>),
   Arr(<<Str("password"), Str("token")>>),
   Arr(<<Str("token"), Str("password")>>),
   Arr(<<Str("user")>>),
   Arr(<<Str("key")>>)}

\* primitive values, null and undefined
Scalars == {Str("string"), Num(123), Bool(TRUE), Null, Undef}

\* objects without nesting; a key's value may be undefined or name a key
FlatObjects ==
  {Obj(f) : f \in UNION {[keys -> {Num(1), Str("password"), Undef}] :
                           keys \in SUBSET {"name", "password", "token"}}}

\* objects in objects, objects in arrays and arrays in objects
RECURSIVE NestedValues(_)
NestedValues(depth) ==
  IF depth = 0 THEN Scalars \cup FlatObjects
  ELSE LET inner == NestedValues(depth - 1)
       IN inner
          \cup {Obj("user" :> value) : value \in inner}
          \cup {Obj(("password" :> value) @@ ("name" :> Str("John"))) : value \in inner}
          \cup {Arr(<<value, Num(1)>>) : value \in inner}
          \cup {Obj(("items" :> Arr(<<value>>)) @@ ("token" :> Str("abc123"))) :
                  value \in inner}

SanitizeObject ==
  /\ phase = "idle"
  /\ \E obj \in NestedValues(MaxNesting), keysToRemove \in SanitizeLists :
       /\ result' = sanitizeObject(obj, keysToRemove)
       /\ call' = [NoCall EXCEPT !.op = "sanitizeObject", !.err = obj,
                                 !.options = keysToRemove,
                                 !.first = Bool(sanitizeObjectSameReference(obj, keysToRemove))]
  /\ phase' = "sanitized"
  /\ UNCHANGED <<nodeEnv, middleware, converts, handler, response>>

\* the output is sanitized once more with the same list
SanitizeAgain ==
  /\ phase = "sanitized"
  /\ response' = sanitizeObject(result, call.options)
  /\ phase' = "resanitized"
  /\ UNCHANGED <<nodeEnv, middleware, converts, call, result, handler>>

\* the structures go out of scope
Discard ==
  /\ phase \in {"sanitized", "resanitized"}
  /\ phase' = "idle"
  /\ call' = NoCall
  /\ result' = Undef
  /\ response' = Undef
  /\ UNCHANGED <<nodeEnv, middleware, converts, handler>>

NextSanitize ==
  \/ SanitizeObject
  \/ SanitizeAgain
  \/ Discard

SpecSanitize == Init /\ [][NextSanitize]_vars

\* out is v with the keys in keys removed from every object at every depth:
\* the other keys stay, arrays keep length and order, the rest is unchanged
RECURSIVE Stripped(_, _, _)
Stripped(v, out, keys) ==
  CASE v.t = "object" ->
         /\ out.t = "object"
         /\ DOMAIN out.v = DOMAIN v.v \ keys
         /\ \A k \in DOMAIN out.v : Stripped(v.v[k], out.v[k], keys)
    [] v.t = "array" ->
         /\ out.t = "array"
         /\ Len(out.v) = Len(v.v)
         /\ \A i \in DOMAIN v.v : Stripped(v.v[i], out.v[i], keys)
    [] OTHER -> out = v

\* C12: with a non-empty key list, sanitizeObject returns a structure in
\* which no object at any depth has a key of the list, every other key is
\* kept with its sanitized value, arrays keep their length and order, and
\* scalars, null and undefined are returned as is; which keys go depends on
\* their names only.
C12_SanitizeRemovesByName ==
  (call.op = "sanitizeObject" /\ Len(call.options.v) > 0) =>
    LET keys == SanitizeKeys(call.options)
    IN /\ ~HasKeyDeep(result, keys)
       /\ Stripped(call.err, result, keys)
       /\ call.err \in Scalars => result = call.err

C12_Witness ==
  /\ call.op = "sanitizeObject"
  /\ call.options = Arr(<<Str("password"), Str("token")>>)
  /\ call.err =
       Obj(("items" :> Arr(<<Obj("user" :> Obj(("name" :> Num(1))
                                               @@ ("password" :> Undef)))>>))
           @@ ("token" :> Str("abc123")))
  /\ result = Obj("items" :> Arr(<<Obj("user" :> Obj("name" :> Num(1)))>>))

\* C13: sanitizing the output of sanitizeObject again with the same list
\* gives a structurally equal value.
C13_SanitizeIdempotent ==
  phase = "resanitized" => response = result

C13_Witness ==
  /\ phase = "resanitized"
  /\ call.options = Arr(<<Str("token"), Str("password")>>)
  /\ HasKeyDeep(call.err, {"token"})
  /\ HasKeyDeep(call.err, {"password"})
  /\ call.err.t = "array"
  /\ result # call.err
  /\ response = result

GuardValues ==
  RawValues
  \cup {createError(options, HandlerStack) : options \in CreateOptions}
  \cup {Obj(("isBan" :> flag) @@ status) :
          flag \in {Bool(TRUE), Bool(FALSE), Num(1), Str("true"), Null},
          status \in Opt("status", {Num(0), Num(404)})}

\* the optional statusCode argument
GuardStatuses == {Undef, Num(0), Num(404), Num(500)}

IsBanError ==
  /\ phase = "idle"
  /\ \E err \in GuardValues, statusCode \in GuardStatuses :
       /\ result' = Bool(isBanErrorWithStatus(err, statusCode))
       /\ call' = [NoCall EXCEPT !.op = "isBanError", !.err = err, !.options = statusCode]
  /\ phase' = "tested"
  /\ UNCHANGED <<nodeEnv, middleware, converts, handler, response>>

\* the answer has been used
Forget ==
  /\ phase = "tested"
  /\ phase' = "idle"
  /\ call' = NoCall
  /\ result' = Undef
  /\ UNCHANGED <<nodeEnv, middleware, converts, handler, response>>

NextGuard ==
  \/ IsBanError
  \/ Forget

SpecGuard == Init /\ [][NextGuard]_vars

\* C15: isBanError answers true exactly for a non-null object whose isBan
\* is the boolean true and whose status equals the status argument whenever
\* one is given, 0 included; it answers false for null, undefined and
\* primitives.
C15_IsBanErrorExact ==
  call.op = "isBanError" =>
    LET value == call.err
        status == call.options
    IN result = Bool(/\ value.t = "object"
                     /\ "isBan" \in DOMAIN value.v
                     /\ value.v["isBan"] = Bool(TRUE)
                     /\ (status # Undef => Get(value, "status") = status))

(***************************************************************************)
(* Properties of the named per-status constructors.                        *)
(***************************************************************************)
\* the message option of a positional argument read as options
MessageOf(options) == Get(options, "message")

\* C16: a named constructor returns an error with its own fixed status for
\* every pair of arguments, also when an argument carries another statusCode;
\* a string first argument is the message, also when options.message is
\* given; any other first argument is read as options; and when no message
\* is given the message is the reason phrase of the fixed code.
C16_NamedConstructorFixesStatus ==
  call.op \in FactoryNames =>
    LET first == call.first
        second == call.options
        code == FactoryStatus(call.op)
    IN /\ isBanError(result)
       /\ Get(result, "status") = Num(code)
       /\ first.t = "string" => Get(result, "message") = first
       /\ (first.t = "object" /\ second = Undef) =>
            /\ Given(MessageOf(first)) => Get(result, "message") = MessageOf(first)
            /\ Get(result, "data") = Get(first, "data")
            /\ HasKey(first, "headers") => Get(result, "headers") = Get(first, "headers")
       /\ (first.t # "string" /\ ~Given(MessageOf(first)) /\ ~Given(MessageOf(second))) =>
            Get(result, "message") = Str(StatusTable[code])

C16_Witness ==
  /\ call.op = "notFound"
  /\ call.first = Str("Custom message")
  /\ call.options = Obj(("statusCode" :> Num(503)) @@ ("message" :> Str("Second message")))
  /\ Get(result, "status") = Num(404)
  /\ Get(result, "message") = Str("Custom message")

(***************************************************************************)
(* The formatters on their own: an error is built or converted, then one   *)
(* of the two built-in formatters is applied to it.                        *)
(***************************************************************************)
ViolationsData ==
  Obj("violations" :>
        Arr(<<Obj(("name" :> Str("email")) @@ ("reason" :> Str("Already taken"))
                  @@ ("resource" :> Str("user")) @@ ("constraint" :> Str("unique")))>>))

\* data carrying both extension arrays
BothData == Obj(ParamsData.v @@ ViolationsData.v)

\* an empty invalid-params list next to violations
EmptyParamsData == Obj(("invalid-params" :> Arr(<<>>)) @@ ViolationsData.v)

\* data whose own keys are named like headers
HeaderLikeData == Obj(("X-Request-Id" :> Str("in-data")) @@ ("headers" :> Str("in-data")))

FormatData ==
  {DevData, DevDataSecret, NotDevData, SecretData, Null, ParamsData, ViolationsData,
   BothData, EmptyParamsData, HeaderLikeData}

\* createError(options) of the errors handed to a formatter
FormatOptions ==
  {Obj(s @@ m @@ d @@ h @@ a @@ c) :
     s \in Opt("statusCode", {Num(404), Num(419), Num(422)}),
     m \in Opt("message", {Str("Validation failed")}),
     d \in Opt("data", FormatData),
     h \in Opt("headers", {ErrorHeaders}),
     a \in Opt("allow", {Arr(<<Str("GET"), Str("POST")>>)}),
     c \in Opt("cause", {CauseError})}

\* the headers, sanitize and includeStackTrace arguments of format
FormatHeaders == {Undef, OptionHeaders}
FormatSanitize ==
  {Undef, Arr(<<>>), Arr(<<Str("password"), Str("token")>>),
   Arr(<<Str("stack"), Str("statusCode")>>)}
FormatIncludeStackTrace == {Undef, Bool(TRUE), Bool(FALSE)}

FormatCreateError ==
  /\ phase = "idle"
  /\ \E options \in FormatOptions :
       /\ result' = createError(options, HandlerStack)
       /\ call' = [NoCall EXCEPT !.op = "createError", !.options = options]
  /\ phase' = "built"
  /\ UNCHANGED <<nodeEnv, middleware, converts, handler, response>>

DefaultFormat ==
  /\ phase = "built"
  /\ \E headers \in FormatHeaders, sanitize \in FormatSanitize,
        includeStackTrace \in FormatIncludeStackTrace :
       /\ handler' = [error |-> result, formatter |-> defaultFormatter,
                      sanitize |-> sanitize, includeStackTrace |-> includeStackTrace,
                      formatted |-> defaultFormat(result, headers, sanitize,
                                                  includeStackTrace)]
       /\ call' = [NoCall EXCEPT !.op = "format", !.err = result, !.options = headers]
  /\ phase' = "formatted"
  /\ UNCHANGED <<nodeEnv, middleware, converts, result, response>>

Rfc7807Format ==
  /\ phase = "built"
  /\ \E uuid \in Uuids, now \in Instants :
       /\ handler' = [NoHandler EXCEPT !.error = result, !.formatter = rfc7807Formatter,
                                       !.formatted = rfc7807Format(result, uuid, now)]
       /\ call' = [NoCall EXCEPT !.op = "format", !.err = result]
  /\ phase' = "formatted"
  /\ UNCHANGED <<nodeEnv, middleware, converts, result, response>>

NextFormat ==
  \/ FormatCreateError
  \/ BadImplementation
  \/ ConvertRaw
  \/ DefaultFormat
  \/ Rfc7807Format
  \/ Release

SpecFormat == Init /\ [][NextFormat]_vars

\* the default formatter has produced handler.formatted
DefaultFormatted == phase = "formatted" /\ handler.formatter = defaultFormatter

\* C17: the default formatter's output has a stack or causeStack key only if
\* includeStackTrace is true or error.data carries isDeveloperError === true;
\* with neither there is no such key, and a developer error's stack is in
\* the output also when includeStackTrace is false or absent (the error
\* having a stack and the sanitize list not naming it).
C17_StackPolicy ==
  DefaultFormatted =>
    LET out == handler.formatted
        error == handler.error
        dev == CarriesDeveloperFlag(error)
        include == handler.includeStackTrace = Bool(TRUE)
    IN /\ (HasKey(out, "stack") \/ HasKey(out, "causeStack")) => (include \/ dev)
       /\ HasKey(out, "stack") => Get(out, "stack") = Get(error, "stack")
       /\ HasKey(out, "causeStack") => Get(out, "causeStack") = Get(error, "causeStack")
       /\ ( /\ dev
            /\ Get(error, "stack").t = "string"
            /\ "stack" \notin SanitizeKeys(handler.sanitize) )
          => Get(out, "stack") = Get(error, "stack")

C17_Witness ==
  /\ DefaultFormatted
  /\ handler.includeStackTrace = Bool(FALSE)
  /\ Get(handler.error, "data") = DevDataSecret
  /\ Get(handler.formatted, "stack") = Str(HandlerStack)
  /\ Get(handler.formatted, "causeStack") = Str("at connect (db.ts)")

\* the names of an object's own keys (none for any other value)
KeysOf(value) == IF value.t = "object" THEN DOMAIN value.v ELSE {}

Rfc7807Formatted ==
  /\ phase = "formatted"
  /\ handler.formatter = rfc7807Formatter
  /\ handler.formatted.t = "object"

\* data carries an array under key
HasArray(data, key) == data.t = "object" /\ Get(data, key).t = "array"

C19_ResponseHeaders ==
  (call.op = "createErrorResponse" /\ response.t = "Response") =>
    LET error == call.err
        headers == Get(error, "headers")
        allow == Get(error, "allow")
        hasAllow == allow.t = "array" /\ Len(allow.v) > 0
        sent == response.headers
    IN /\ (\A key \in KeysOf(headers) : LowerName(key) # "content-type") =>
            HeadersGet(sent, "Content-Type") = Str("application/json")
       /\ \A key \in KeysOf(headers) :
            (LowerName(key) # "allow" \/ ~hasAllow) =>
              HeadersGet(sent, key) = headers.v[key]
       /\ hasAllow => HeadersGet(sent, "Allow") = Str(Join(allow.v))
       /\ (~hasAllow /\ \A key \in KeysOf(headers) : LowerName(key) # "allow") =>
            HeadersGet(sent, "Allow") = Null

(***************************************************************************)
(* Failures of a formatter inside the middleware.                          *)
(***************************************************************************)
\* the details the RFC 7807 formatter assembles for error violate the
\* problem-details shape: the status is outside 400..599, the type is no
\* URL, or an invalid-params entry lacks its name or reason
ViolatesShape(formatter, error) ==
  LET status == Get(error, "status")
      params == Get(Get(error, "data"), "invalid-params")
  IN \/ status.t # "number"
     \/ status.v < 400
     \/ status.v > 599
     \/ ~IsUrl(Str(baseUrlOf(formatter) \o "/" \o StatusText(status)))
     \/ /\ params.t = "array"
        /\ \E i \in DOMAIN params.v : ~IsValidationParam(params.v[i])

\* C21: when the details assembled by the RFC 7807 formatter violate the
\* problem-details shape, format throws and returns no payload; and when the
\* formatter throws inside the middleware's catch block, the exception is
\* what leaves the middleware: no response is produced.
C21_FormatterFailurePropagates ==
  call.op = "banCatch" =>
    /\ (handler.formatter.v = "rfc7807" /\ ViolatesShape(handler.formatter, handler.error))
         => handler.formatted = Thrown("ZodError")
    /\ handler.formatted.t = "throw" =>
         /\ response = handler.formatted
         /\ response.t # "Response"

C21_Witness ==
  /\ call.op = "banCatch"
  /\ handler.formatter = createRFC7807Formatter(Obj("baseUrl" :> Str("/problems")))
  /\ Get(handler.error, "status") = Num(500)
  /\ handler.formatted = Thrown("ZodError")
  /\ response = Thrown("ZodError")

(***************************************************************************)
(* Properties of convertToBanError on values that are no BanError.         *)
(***************************************************************************)
\* the value has a message that is a string
HasMessageString(value) == Get(value, "message").t = "string"

\* convertToBanError has just been applied to a value that is no BanError
ConvertedForeign == call.op = "convertToBanError" /\ ~isBanError(call.err)

\* C22: for a value that is no BanError and has a string message, an Error
\* instance or any other object, convertToBanError returns an error whose
\* message is options.message when given and the value's message otherwise,
\* and whose cause is the value.
C22_ErrorLikeKeepsMessage ==
  (ConvertedForeign /\ HasMessageString(call.err)) =>
    /\ Get(result, "message") =
         (IF Given(Get(call.options, "message")) THEN Get(call.options, "message")
          ELSE Get(call.err, "message"))
    /\ Get(result, "cause") = call.err

\* C23: for any other value x that is no BanError, falsy values included,
\* the result's cause is x, its message is options.message when given, else
\* x when x is a string, else "Unknown error", and its status is the
\* normalized options.statusCode when given and 500 otherwise.
C23_ForeignValueIsCause ==
  (ConvertedForeign /\ ~HasMessageString(call.err)) =>
    LET x == call.err
        statusCode == Get(call.options, "statusCode")
    IN /\ Get(result, "cause") = x
       /\ Get(result, "message") =
            (IF Given(Get(call.options, "message")) THEN Get(call.options, "message")
             ELSE IF x.t = "string" THEN x
             ELSE Str("Unknown error"))
       /\ Get(result, "status") =
            (IF Given(statusCode) THEN validateStatusCode(statusCode) ELSE Num(500))

(***************************************************************************)
(* Mutation of the caller's containers after an error was returned.        *)
(***************************************************************************)
\* the container after the caller added an entry to it
Mutated(container) ==
  IF container.t = "array" THEN Arr(Append(container.v, Str("TRACE")))
  ELSE Obj(("X-Mutated" :> Str("later")) @@ container.v)

\* the headers, allow or sanitize container the caller passed in options or
\* on the source error is changed in place; the returned error shows the
\* change exactly when it holds that same object
MutateContainer ==
  /\ phase = "built"
  /\ call.op \in {"createError", "convertToBanError"}
  /\ \E field \in {"headers", "allow", "sanitize"}, holder \in {"options", "err"} :
       LET container == Get(IF holder = "options" THEN call.options ELSE call.err, field)
           shared == IF call.op = "createError" THEN createErrorShared(call.options)
                     ELSE convertToBanErrorShared(call.err, call.options)
       IN /\ container.t \in {"object", "array"}
          /\ result' = IF <<field, holder>> \in shared
                       THEN Obj((field :> Mutated(container)) @@ result.v)
                       ELSE result
          /\ call' = [call EXCEPT !.op = "mutate", !.first = result,
                                  !.formatted = Str(field)]
  /\ phase' = "mutated"
  /\ UNCHANGED <<nodeEnv, middleware, converts, handler, response>>

NextAlias ==
  \/ CreateError
  \/ ConvertRaw
  \/ ConvertBuilt
  \/ MutateContainer
  \/ Release

SpecAlias == Init /\ [][NextAlias]_vars

\* C24: the headers, allow and sanitize containers of an error returned by
\* createError or convertToBanError are never the objects passed in, in
\* options or on the source BanError: changing a caller's container after
\* the call leaves the returned error as it was.
C24_NoSharedContainers ==
  call.op = "mutate" => result = call.first

(***************************************************************************)
(* Properties of the validation hook.                                      *)
(***************************************************************************)
\* one entry per issue of the validation error, in issue order
ExpectedParams(error) ==
  Arr([i \in DOMAIN error.errors |->
         Obj(("name" :> Str(JoinPath(error.errors[i].path)))
             @@ ("reason" :> Str(error.errors[i].message)))])

\* the invalid-params list of a response body: a member of the problem
\* details, or of the data of the default formatter's output
InvalidParamsOf(body) ==
  IF HasKey(body, "invalid-params") THEN Get(body, "invalid-params")
  ELSE Get(Get(body, "data"), "invalid-params")

\* the validation result is a failure carrying a ZodError
IsZodFailure(validation) == ~validation.success /\ validation.error.t = "ZodError"

\* C25: the validation hook returns undefined and throws nothing for a
\* successful result and for a failure whose error is no ZodError; for a
\* failure with a ZodError it raises a 400 Bad Request error that the
\* middleware formats and answers with, and the invalid-params list of the
\* response has one entry per issue, in issue order, named by the issue's path
\* segments joined with "." and with the issue's message as its reason.
C25_ValidationHook ==
  [][ /\ (phase = "idle" /\ call'.op = "rfc7807Hook") =>
           /\ ~IsZodFailure(call'.first) =>
                /\ phase' = "idle"
                /\ result' = Undef
                /\ response' = response
           /\ IsZodFailure(call'.first) =>
                /\ phase' = "thrown"
                /\ isBanError(result')
                /\ Get(result', "status") = Num(400)
                /\ Get(Get(result', "data"), "invalid-params")
                     = ExpectedParams(call'.first.error)
      /\ ( /\ phase = "thrown"
           /\ call.op = "rfc7807Hook"
           /\ call'.op = "banCatch"
           /\ handler'.formatted.t # "throw" ) =>
           /\ response'.t = "Response"
           /\ response'.status = 400
           /\ InvalidParamsOf(response'.body) = ExpectedParams(call.first.error)
    ]_vars

C25_Witness ==
  /\ call.op = "banCatch"
  /\ response.t = "Response"
  /\ response.status = 400
  /\ HeadersGet(response.headers, "Content-Type") = Str("application/json")
  /\ Get(response.body, "message") = Str("Custom validation error")
  /\ InvalidParamsOf(response.body) =
       Arr(<<Obj(("name" :> Str("user.tags.0")) @@ ("reason" :> Str("Required"))),
             Obj(("name" :> Str("")) @@ ("reason" :> Str("Unrecognized key")))>>)

(***************************************************************************)
(* packages/core: the class-based Ban (lib/ban) and its formatters         *)
(* (lib/formatter).  An instance is a record of its fields; an object a    *)
(* formatter run allocates carries the number of that allocation as ref,   *)
(* so that two equal outputs computed by two runs are two objects.         *)
(***************************************************************************)
\* number of formatter runs on one instance
MaxOutputs == 3

\* new DefaultFormatter() and the CustomFormatter of the package's tests
DefaultFormatterInstance == Formatter("DefaultFormatter")
CustomFormatterInstance == Formatter("CustomFormatter")

\* formatter.contentType
formatterContentType(formatter) ==
  IF formatter = CustomFormatterInstance THEN "application/custom-json"
  ELSE "application/json"

\* Ban.resolveParameters(messageOrError, options)
resolveParameters(messageOrError, options) ==
  LET given == Coalesce(Get(options, "statusCode"), Num(500))
      isError == messageOrError.t \in {"Error", "Ban"}
      message == IF isError
                 THEN Coalesce(Get(options, "message"),
                               IF messageOrError.t = "Ban" THEN messageOrError.message
                               ELSE Get(messageOrError, "message"))
                 ELSE Coalesce(messageOrError,
                               Coalesce(Get(options, "message"), STATUS_CODES(given)))
      statusCode == IF messageOrError.t = "Ban" THEN messageOrError.status ELSE given
      outside == statusCode.v < 400 \/ statusCode.v >= 600
  IN [statusCode |-> IF outside THEN Num(500) ELSE statusCode,
      message |-> IF outside /\ ~Truthy(message) THEN Str("Unknown Server Error")
                  ELSE message]

\* new Ban(messageOrError, options)
NewBan(messageOrError, options, stack) ==
  LET resolved == resolveParameters(messageOrError, options)
      allow == Get(options, "allow")
  IN [t |-> "Ban",
      status |-> resolved.statusCode,
      message |-> resolved.message,
      data |-> Coalesce(Get(options, "data"), Null),
      formatter |-> Get(options, "formatter"),
      headers |-> Obj(Spread(Coalesce(Get(options, "headers"), Obj(EmptyObject)))),
      sanitize |-> CopyArray(Coalesce(Get(options, "sanitize"), Arr(<<>>))),
      includeStackTrace |-> Coalesce(Get(options, "includeStackTrace"), Bool(FALSE)),
      isDeveloperError |-> Bool(resolved.statusCode.v >= 500),
      isBan |-> Bool(TRUE),
      allow |-> IF Truthy(allow)
                THEN IF allow.t = "array" THEN CopyArray(allow) ELSE Arr(<<allow>>)
                ELSE Undef,
      stack |-> Str(stack),
      formattedOutput |-> Null]

\* DefaultFormatter.format(error, headers, sanitize, includeStackTrace)
DefaultFormatterFormat(error, headers, sanitize, includeStackTrace) ==
  LET name == STATUS_CODES(error.status)
      payload == ("statusCode" :> error.status)
                 @@ ("error" :> IF Truthy(name) THEN name ELSE Str("Unknown"))
                 @@ Prop(error.message.t # "undefined", "message", error.message)
                 @@ Prop(Truthy(includeStackTrace), "stack", error.stack)
      kept == [key \in {k \in DOMAIN payload : Str(k) \notin Range(sanitize.v)} |->
                 payload[key]]
      out == IF Truthy(error.allow)
             THEN Assign(headers.v, "Allow" :> Str(Join(error.allow.v)))
             ELSE headers.v
  IN Obj(("statusCode" :> error.status) @@ ("payload" :> Obj(kept))
         @@ ("headers" :> Obj(out)))

\* CustomFormatter.format(error, headers, sanitize, includeStackTrace)
CustomFormatterFormat(error, headers, sanitize, includeStackTrace) ==
  Obj(("payload" :> Obj(("message" :> error.message) @@ ("custom" :> Bool(TRUE))
                        @@ ("secret" :> Str("should be removed"))))
      @@ ("headers" :> headers)
      @@ ("stack" :> IF Truthy(includeStackTrace) THEN error.stack ELSE Undef))

\* Ban.recursiveSanitize(obj, keysToRemove)
RECURSIVE recursiveSanitize(_, _)
recursiveSanitize(obj, keysToRemove) ==
  IF obj.t = "array"
  THEN Arr([i \in DOMAIN obj.v |-> recursiveSanitize(obj.v[i], keysToRemove)])
  ELSE IF obj.t = "object"
  THEN Obj([key \in {k \in DOMAIN obj.v : Str(k) \notin Range(keysToRemove.v)} |->
              recursiveSanitize(obj.v[key], keysToRemove)])
  ELSE IF obj.t \in {"Error", "formatter"}
  THEN Obj(EmptyObject)
  ELSE obj

\* the output a run of formatter on the instance computes
computeOutput(ban, formatter) ==
  LET headers == Obj(Spread(ban.headers))
      sanitize == CopyArray(ban.sanitize)
      initialPayload ==
        IF formatter = CustomFormatterInstance
        THEN CustomFormatterFormat(ban, headers, sanitize, ban.includeStackTrace)
        ELSE DefaultFormatterFormat(ban, headers, sanitize, ban.includeStackTrace)
  IN recursiveSanitize(initialPayload, ban.sanitize)

\* the instance after a read of ban.output; allocations counts the objects
\* formatter runs have created so far
outputRead(ban, staticDefault, allocations) ==
  IF ~Truthy(ban.formattedOutput)
  THEN LET output == computeOutput(ban, Coalesce(ban.formatter, staticDefault))
       IN [ban EXCEPT !.formattedOutput =
             [t |-> output.t, v |-> output.v, ref |-> allocations + 1]]
  ELSE ban

\* ban.contentType
banContentType(ban, staticDefault) ==
  IF ban.formatter.t \in {"undefined", "null"}
  THEN formatterContentType(staticDefault)
  ELSE formatterContentType(ban.formatter)

\* ban.getResponse(), given the instance its read of this.output leaves
getResponse(ban, staticDefault) ==
  LET init == Assign("Content-Type" :> Str(banContentType(ban, staticDefault)),
                     Spread(ban.headers))
      headers == IF ban.allow.t = "array" /\ Len(ban.allow.v) > 0
                 THEN HeadersSet(NewHeaders(init), "Allow", Join(ban.allow.v))
                 ELSE NewHeaders(init)
  IN NewResponse(JSONstringify(ban.formattedOutput), ban.status, headers)

setFormatter_KeepsCache(ban, formatter) ==
  [ban EXCEPT !.formatter = formatter]

\* ban.setFormatter(formatter)
setFormatter(ban, formatter) ==
  [ban EXCEPT !.formatter = formatter, !.formattedOutput = Null]

(***************************************************************************)
(* One Ban instance and its clients.  In this package the process-wide     *)
(* configuration is the static Ban.defaultFormatter, kept in middleware;   *)
(* result is the instance, converts the number of objects formatter runs   *)
(* have allocated, and call is the client's log: op and formatted are the  *)
(* last operation and the value it returned, first is the output the last  *)
(* read returned, options the formatter given to setFormatter since that   *)
(* read, err the formatter last set on the instance.                       *)
(***************************************************************************)
BanOptions ==
  {Obj(a @@ b @@ c @@ d @@ e @@ f) :
     a \in Opt("statusCode", {Num(400)}),
     b \in Opt("sanitize", {Arr(<<Str("secret")>>)}),
     c \in Opt("includeStackTrace", {Bool(TRUE)}),
     d \in Opt("formatter", {CustomFormatterInstance}),
     e \in Opt("allow", {Arr(<<Str("PUT"), Str("DELETE")>>)}),
     f \in Opt("headers", {Obj("X-Request-Id" :> Str("r-1"))})}

InitCache ==
  /\ nodeEnv = Undef
  /\ middleware = DefaultFormatterInstance
  /\ phase = "idle"
  /\ converts = 0
  /\ call = NoCall
  /\ result = Undef
  /\ handler = NoHandler
  /\ response = Undef

\* new Ban(messageOrError, options)
Construct ==
  /\ phase = "idle"
  /\ \E messageOrError \in {Undef, Str("cache test")}, options \in BanOptions :
       /\ result' = NewBan(messageOrError, options, HandlerStack)
       /\ call' = [NoCall EXCEPT !.op = "new", !.err = Get(options, "formatter")]
  /\ phase' = "built"
  /\ UNCHANGED <<nodeEnv, middleware, converts, handler, response>>

\* ban.output
ReadOutput ==
  /\ phase = "built"
  /\ Truthy(result.formattedOutput) \/ converts < MaxOutputs
  /\ result' = outputRead(result, middleware, converts)
  /\ converts' = IF Truthy(result.formattedOutput) THEN converts ELSE converts + 1
  /\ call' = [call EXCEPT !.op = "output", !.formatted = result'.formattedOutput,
                          !.first = result'.formattedOutput, !.options = Undef]
  /\ UNCHANGED <<nodeEnv, middleware, phase, handler, response>>

\* ban.contentType
ReadContentType ==
  /\ phase = "built"
  /\ call' = [call EXCEPT !.op = "contentType",
                          !.formatted = Str(banContentType(result, middleware))]
  /\ UNCHANGED <<nodeEnv, middleware, phase, converts, result, handler, response>>

\* ban.setFormatter(formatter)
SetFormatter ==
  /\ phase = "built"
  /\ \E formatter \in {DefaultFormatterInstance, CustomFormatterInstance} :
       /\ result' = setFormatter(result, formatter)
       /\ call' = [call EXCEPT !.op = "setFormatter", !.formatted = Undef,
                               !.options = formatter, !.err = formatter]
  /\ UNCHANGED <<nodeEnv, middleware, phase, converts, handler, response>>

\* Ban.setDefaultFormatter(formatter)
SetDefaultFormatter ==
  /\ \E formatter \in {DefaultFormatterInstance, CustomFormatterInstance} :
       /\ formatter # middleware
       /\ middleware' = formatter
  /\ call' = [call EXCEPT !.op = "setDefaultFormatter", !.formatted = Undef]
  /\ UNCHANGED <<nodeEnv, phase, converts, result, handler, response>>

\* ban.getResponse()
GetResponse ==
  /\ phase = "built"
  /\ Truthy(result.formattedOutput) \/ converts < MaxOutputs
  /\ result' = outputRead(result, middleware, converts)
  /\ converts' = IF Truthy(result.formattedOutput) THEN converts ELSE converts + 1
  /\ response' = getResponse(result', middleware)
  /\ call' = [call EXCEPT !.op = "getResponse", !.formatted = result'.formattedOutput,
                          !.first = result'.formattedOutput, !.options = Undef]
  /\ UNCHANGED <<nodeEnv, middleware, phase, handler>>

\* the instance goes out of use; the static default formatter stays
Drop ==
  /\ phase = "built"
  /\ phase' = "idle"
  /\ converts' = 0
  /\ call' = NoCall
  /\ result' = Undef
  /\ response' = Undef
  /\ UNCHANGED <<nodeEnv, middleware, handler>>

NextCache ==
  \/ Construct
  \/ ReadOutput
  \/ ReadContentType
  \/ SetFormatter
  \/ SetDefaultFormatter
  \/ GetResponse
  \/ Drop

SpecCache == InitCache /\ [][NextCache]_vars

\* C26: on one Ban instance, a read of output that follows an earlier read
\* with no setFormatter in between returns the very object the earlier read
\* returned; the first read after setFormatter(f) returns an object that f
\* produced and that is not the one read before; and contentType is always
\* the content type of the formatter last set on the instance.
C26_OutputCache ==
  [][/\ call'.op \in {"output", "getResponse"} =>
          /\ call.first # Undef /\ call.options = Undef =>
               call'.formatted = call.first
          /\ call.options # Undef =>
               /\ call'.formatted # call.first
               /\ call'.formatted.v = computeOutput(result, call.options).v
     /\ call'.op = "contentType" /\ call.err # Undef =>
          call'.formatted = Str(formatterContentType(call.err))]_vars

C26_Witness ==
  /\ call.op = "output"
  /\ call.err = CustomFormatterInstance
  /\ result.formatter = CustomFormatterInstance
  /\ result.formattedOutput.ref >= 2
  /\ call.formatted = result.formattedOutput
  /\ HasKey(Get(call.formatted, "payload"), "custom")

\* C27: for a Ban instance on which no formatter was ever set, the body that
\* getResponse returns is the output the current default formatter produces
\* for the instance, and the Content-Type sent is that formatter's.
C27_BodyAndContentTypeAgree ==
  (/\ call.op = "getResponse"
   /\ call.err = Undef
   /\ result.formatter = Undef) =>
    /\ response.body = JSONstringify(computeOutput(result, middleware))
    /\ HeadersGet(response.headers, "Content-Type")
         = Str(formatterContentType(middleware))

(***************************************************************************)
(* Redaction as non-interference: the errors that differ from a given one  *)
(* in what redaction is to hide, and agree with it on status, headers and  *)
(* allow.                                                                  *)
(***************************************************************************)
\* error with other values of message, data (developer flag kept), stack
\* and cause
Variants(error) ==
  {Obj(m @@ d @@ s @@ c @@ error.v) :
     m \in {EmptyObject, "message" :> Str("another message")},
     d \in {"data" :> DevData, "data" :> DevDataSecret},
     s \in {EmptyObject, "stack" :> Str("at another (place.ts)")},
     c \in {EmptyObject, "cause" :> Str("another cause")}}

\* C28: in production, a BanError whose data.isDeveloperError is true gets
\* the response (status, headers and body) that every other such error with
\* the same status, headers and allow gets, whatever their messages, other
\* data, stacks, causes and formatted payloads are.
C28_RedactionNonInterference ==
  (/\ call.op = "createErrorResponse"
   /\ nodeEnv = Str("production")
   /\ Get(Get(call.err, "data"), "isDeveloperError") = Bool(TRUE)) =>
    \A other \in Variants(call.err) :
      \A formatted \in Payloads(other) :
        createErrorResponse(other, formatted, nodeEnv) = response

C28_Witness ==
  /\ call.op = "createErrorResponse"
  /\ nodeEnv = Str("production")
  /\ Get(call.err, "data") = DevDataSecret
  /\ Get(call.err, "message") = Str("db down")
  /\ HasKey(call.err, "cause")
  /\ Get(call.err, "headers") = ErrorHeaders
  /\ Get(call.formatted, "message") = Str("db down")
  /\ response.t = "Response"
  /\ HeadersGet(response.headers, "Retry-After") = Str("30")
  /\ \E other \in Variants(call.err) :
       /\ Get(other, "message") # Get(call.err, "message")
       /\ Get(other, "data") # Get(call.err, "data")

\* C29: convertToBanError(e, {}) of a BanError e has the status, message,
\* data, allow, cause, stack, causeStack, formatter, sanitize,
\* includeStackTrace and header entries of e.
C29_ConvertWithoutOptionsLosesNothing ==
  (/\ call.op = "convertToBanError"
   /\ isBanError(call.err)
   /\ call.options = Obj(EmptyObject)) =>
    /\ \A field \in {"status", "message", "data", "allow", "cause", "stack",
                     "causeStack", "formatter", "sanitize", "includeStackTrace"} :
         Get(result, field) = Get(call.err, field)
    /\ Spread(Get(result, "headers")) = Spread(Get(call.err, "headers"))

(***************************************************************************)
(* Frame conditions.  The value model has no heap, so the property writes  *)
(* of a call are listed as the code makes them: the object written to, by  *)
(* the name the code gives it, the key, and whether the object was created *)
(* by the call itself (an object literal, a reduce accumulator) or is an   *)
(* argument or reachable from one.                                         *)
(***************************************************************************)
sanitizeObjectWrites_InPlace(obj, keysToRemove) ==
  IF Len(keysToRemove.v) = 0 THEN {}
  ELSE IF obj.t = "object"
  THEN {[fresh |-> FALSE, object |-> "obj", key |-> k] :
          k \in {k \in DOMAIN obj.v : Str(k) \in Range(keysToRemove.v)}}
  ELSE {}

\* sanitizeObject(obj, keysToRemove): acc[key] = ... on the accumulator of
\* each object visited
RECURSIVE sanitizeObjectWrites(_, _)
sanitizeObjectWrites(obj, keysToRemove) ==
  IF Len(keysToRemove.v) = 0 THEN {}
  ELSE IF obj.t = "array"
  THEN UNION {sanitizeObjectWrites(obj.v[i], keysToRemove) : i \in DOMAIN obj.v}
  ELSE IF obj.t = "object"
  THEN LET kept == {k \in DOMAIN obj.v : Str(k) \notin Range(keysToRemove.v)}
       IN {[fresh |-> TRUE, object |-> "acc", key |-> k] : k \in kept}
          \cup UNION {sanitizeObjectWrites(obj.v[k], keysToRemove) : k \in kept}
  ELSE {}

\* defaultFormatter.format: output.message, output.stack, output.causeStack
\* and output.data on the output literal, then sanitizeObject(output, sanitize)
defaultFormatWrites(error, headersArg, sanitizeArg, includeStackTraceArg) ==
  LET sanitize == IF sanitizeArg = Undef THEN Arr(<<>>) ELSE sanitizeArg
      output == defaultFormat(error, headersArg, Arr(<<>>), includeStackTraceArg)
  IN {[fresh |-> TRUE, object |-> "output", key |-> k] :
        k \in DOMAIN output.v \ {"statusCode", "error"}}
     \cup sanitizeObjectWrites(output, sanitize)

\* convertToBanError(err, options): the BanError branch returns an object
\* literal; the other branches call createError with an object literal, and
\* createError sets the optional properties on the error literal it returns
convertToBanErrorWrites(err, optionsArg, stack) ==
  LET options == IF optionsArg = Undef THEN Obj(EmptyObject) ELSE optionsArg
  IN IF isBanError(err) THEN {}
     ELSE LET literal ==
                Obj(Assign(Spread(options),
                           ("message" :> Coalesce(Get(options, "message"),
                                                  IF err.t = "Error"
                                                  THEN Get(err, "message")
                                                  ELSE IF err.t = "string" THEN err
                                                  ELSE Str("Unknown error")))
                           @@ ("cause" :> err)))
          IN {[fresh |-> TRUE, object |-> "error", key |-> k] :
                k \in DOMAIN createError(literal, stack).v
                         \ {"status", "message", "isBan"}}

\* sanitizeObject, defaultFormatter.format and convertToBanError applied to
\* built and converted errors and to nested structures
NextFrame ==
  \/ BadImplementation
  \/ ConvertRaw
  \/ ConvertBuilt
  \/ DefaultFormat
  \/ SanitizeObject
  \/ Discard
  \/ Release

SpecFrame == Init /\ [][NextFrame]_vars

\* the writes that go to an argument or to an object reachable from one
InputWrites(writes) == {w \in writes : ~w.fresh}

====
